---- MODULE Spec2Model ----
(***************************************************************************)
(* Coordination-and-learning layer of the email agent framework:           *)
(*   - PersistentMemory (src/src/memory/persistent_memory.py): the event   *)
(*     store, the feedback table and the confidence-weighted preferences;  *)
(*   - EmailMasterAgent (src/src/agent/email_master_agent.py) run through  *)
(*     BaseAgent.run_cycle (src/src/agent/base.py): analysis fan-out,      *)
(*     planning, execution and the workflow_execution event;               *)
(*   - PerformanceMonitor (src/src/monitoring/performance_monitor.py):     *)
(*     operations in flight, per-agent statistics and the metrics buffer.  *)
(*                                                                         *)
(* Confidences are Python floats with at most two decimals in the code;    *)
(* they are modelled as integer hundredths (0.7 is 70, 1.0 is 100).        *)
(* Python's None is NoValue (NoRecord where an object is expected).        *)
(* datetime.now() is the variable clock, read once per operation. It       *)
(* advances at every reading, except in the specification of the event     *)
(* store, where two readings may give the same value: datetime.now() is    *)
(* naive local time with microsecond resolution, not a monotonic clock.    *)
(***************************************************************************)
EXTENDS Integers, Sequences, FiniteSets, TLC

VARIABLES
    clock,               \* last value returned by datetime.now()
    recent_events,       \* PersistentMemory.recent_events (in-memory cache)
    memory_events,       \* table memory_events, rows in insertion order
    user_feedback,       \* table user_feedback, rows in insertion order
    user_preferences,    \* PersistentMemory.user_preferences: full_key -> UserPreference
    db_user_preferences, \* table user_preferences: <<category, preference_key>> -> row
    merge_calls,         \* history: the calls of _update_preference, in order
    last_get,            \* the get_preference call that has just returned, if any
    workflow_settings,   \* EmailMasterAgent.workflow_settings
    performance_metrics, \* EmailMasterAgent.performance_metrics
    pc,                  \* position of run_cycle: idle, analyzing, coordinate, execute, report, done
    emails,              \* the batch of the cycle (email ids)
    branch_calls,        \* the three analysis calls (futures in parallel mode) and their outcomes
    results,             \* the dict run_email_analysis_pipeline builds
    pipeline_results,    \* act: pipeline_results
    execution_plan,      \* act: execution_plan
    workflow_result,     \* act: workflow_result
    mailbox_calls,       \* calls made on email_tools (add_label, archive_email), in order
    cycle_result,        \* what run_cycle returned
    buffer_size,         \* PerformanceMonitor.buffer_size
    metrics_buffer,      \* PerformanceMonitor.metrics_buffer (deque with maxlen)
    active_operations,   \* PerformanceMonitor.active_operations: operation_id -> record
    agent_stats,         \* PerformanceMonitor.agent_stats: agent_name -> counters
    time_now,            \* last value returned by time.time(), in seconds
    appended,            \* history: every metric appended to metrics_buffer, in order
    warnings,            \* the logger.warning calls of the monitor, in order
    feedback_calls,      \* the process_user_feedback calls of concurrent threads: thread -> call
    add_event_calls,     \* history: the add_event calls of the event store, with their outcome
    last_search          \* the search_events call that has just returned, if any

memvars == <<clock, recent_events, memory_events, user_feedback,
             user_preferences, db_user_preferences, merge_calls, last_get>>

agentvars == <<workflow_settings, performance_metrics, pc, emails, branch_calls,
               results, pipeline_results, execution_plan, workflow_result,
               mailbox_calls, cycle_result>>

monvars == <<buffer_size, metrics_buffer, active_operations, agent_stats,
             time_now, appended, warnings>>

threadvars == <<feedback_calls>>

storevars == <<add_event_calls, last_search>>

vars == <<memvars, agentvars, monvars, threadvars, storevars>>

-----------------------------------------------------------------------------
(* Bounds of the model *)

\* the number of rows add_event and add_user_feedback may insert in one run
MaxRows == 4
\* the largest batch fetch_recent_emails returns
MaxBatch == 3

(* Python values *)

NoValue == "None"
NoRecord == [none |-> TRUE]
EmptyDict == [k \in {} |-> NoValue]

\* dict.get(k, default)
Get(d, k, default) == IF k \in DOMAIN d THEN d[k] ELSE default

Min(a, b) == IF a < b THEN a ELSE b
Max(a, b) == IF a > b THEN a ELSE b
Abs(a) == IF a < 0 THEN 0 - a ELSE a

Last(s) == s[Len(s)]

-----------------------------------------------------------------------------
(* PersistentMemory: program constants, in hundredths *)

CacheLimit == 1000
DefaultConfidence == 50
MaxConfidence == 100
MinConfidence == 0
SenderCategoryBoost == 30
KeywordCategoryBoost == 20
ApprovedBoost == 40
RejectedBoost == -20
SenderActionBoost == 30
SenderPriorityBoost == 40
PriorityGap == 1
DefaultImportance == 50

\* f"{category}.{preference_key}"
FullKey(category, preference_key) == category \o "." \o preference_key

\* f"{event_type}_{now:%Y%m%d_%H%M%S_%f}": the time part has a fixed width, so
\* the string is determined by, and determines, the pair.
EventId(event_type, t) == <<event_type, t>>

\* an id that add_event never produced
UnknownEventId == <<"email_processed", 0>>

EventIds(rows) == {rows[i].id : i \in 1..Len(rows)}

\* recent_events[-1000:]
KeepRecent(events) ==
    IF Len(events) > CacheLimit
    THEN SubSeq(events, Len(events) - CacheLimit + 1, Len(events))
    ELSE events

\* get_event that falls back to the newest cached event when the id is unknown
get_event_or_newest(event_id) ==
    IF \E i \in 1..Len(recent_events) : recent_events[i].id = event_id
    THEN LET i == CHOOSE j \in 1..Len(recent_events) : recent_events[j].id = event_id
         IN recent_events[i]
    ELSE IF recent_events # <<>> THEN Last(recent_events)
    ELSE NoRecord

\* PersistentMemory.get_event: the cache first, then the table; None if neither
get_event(event_id) ==
    IF \E i \in 1..Len(recent_events) : recent_events[i].id = event_id
    THEN LET i == CHOOSE j \in 1..Len(recent_events) :
                      /\ recent_events[j].id = event_id
                      /\ \A k \in 1..(j - 1) : recent_events[k].id # event_id
         IN recent_events[i]
    ELSE IF \E i \in 1..Len(memory_events) : memory_events[i].id = event_id
    THEN LET i == CHOOSE j \in 1..Len(memory_events) : memory_events[j].id = event_id
         IN memory_events[i]
    ELSE NoRecord

-----------------------------------------------------------------------------
(* Preference state threaded through one learning step:                    *)
(*   st.prefs = user_preferences, st.db = table user_preferences,          *)
(*   st.calls = merge_calls                                                *)

\* the boost without the upper clamp
BoostedConfidenceUnclamped(old, confidence_boost) == old + confidence_boost

\* min(1.0, pref.confidence + confidence_boost)
BoostedConfidence(old, confidence_boost) == Min(MaxConfidence, old + confidence_boost)

\* max(0.0, 0.5 + confidence_boost)
InitialConfidence(confidence_boost) == Max(MinConfidence, DefaultConfidence + confidence_boost)

\* _update_preference that keeps the first value and provenance of an existing key
_update_preference_keep_first(st, category, preference_key, preference_value, event_id, confidence_boost, t) ==
    LET full_key == FullKey(category, preference_key)
        pref == IF full_key \in DOMAIN st.prefs
                THEN [st.prefs[full_key] EXCEPT
                        !.confidence = BoostedConfidence(@, confidence_boost),
                        !.last_updated = t]
                ELSE [category |-> category,
                      preference_key |-> preference_key,
                      preference_value |-> preference_value,
                      confidence |-> InitialConfidence(confidence_boost),
                      learned_from |-> <<event_id>>,
                      last_updated |-> t]
        row == [preference_value |-> pref.preference_value,
                confidence |-> pref.confidence,
                learned_from |-> pref.learned_from,
                last_updated |-> pref.last_updated]
        call == [category |-> category, preference_key |-> preference_key,
                 preference_value |-> preference_value, event_id |-> event_id,
                 confidence_boost |-> confidence_boost]
    IN [prefs |-> [k \in DOMAIN st.prefs \cup {full_key} |->
                      IF k = full_key THEN pref ELSE st.prefs[k]],
        db |-> [k \in DOMAIN st.db \cup {<<category, preference_key>>} |->
                      IF k = <<category, preference_key>> THEN row ELSE st.db[k]],
        calls |-> Append(st.calls, call)]

\* PersistentMemory._update_preference
_update_preference(st, category, preference_key, preference_value, event_id, confidence_boost, t) ==
    LET full_key == FullKey(category, preference_key)
        pref == IF full_key \in DOMAIN st.prefs
                THEN [st.prefs[full_key] EXCEPT
                        !.preference_value = preference_value,
                        !.confidence = BoostedConfidence(@, confidence_boost),
                        !.learned_from = Append(@, event_id),
                        !.last_updated = t]
                ELSE [category |-> category,
                      preference_key |-> preference_key,
                      preference_value |-> preference_value,
                      confidence |-> InitialConfidence(confidence_boost),
                      learned_from |-> <<event_id>>,
                      last_updated |-> t]
        row == [preference_value |-> pref.preference_value,
                confidence |-> pref.confidence,
                learned_from |-> pref.learned_from,
                last_updated |-> pref.last_updated]
        call == [category |-> category, preference_key |-> preference_key,
                 preference_value |-> preference_value, event_id |-> event_id,
                 confidence_boost |-> confidence_boost]
    IN [prefs |-> [k \in DOMAIN st.prefs \cup {full_key} |->
                      IF k = full_key THEN pref ELSE st.prefs[k]],
        db |-> [k \in DOMAIN st.db \cup {<<category, preference_key>>} |->
                      IF k = <<category, preference_key>> THEN row ELSE st.db[k]],
        calls |-> Append(st.calls, call)]

\* the loop over event.data["email_keywords"]
RECURSIVE LearnKeywords(_, _, _, _, _)
LearnKeywords(st, keywords, corrected_classification, event_id, t) ==
    IF keywords = <<>> THEN st
    ELSE LearnKeywords(
            _update_preference(st, "classification",
                               "keyword_category_" \o Head(keywords),
                               corrected_classification, event_id,
                               KeywordCategoryBoost, t),
            Tail(keywords), corrected_classification, event_id, t)

\* PersistentMemory._update_classification_preference
_update_classification_preference(st, event, correction, t) ==
    LET original_classification == Get(event.data, "classification_result", NoValue)
        corrected_classification == Get(correction, "correct_category", NoValue)
        sender == Get(event.data, "email_sender", "")
        keywords == Get(event.data, "email_keywords", <<>>)
        st1 == IF sender # ""
               THEN _update_preference(st, "classification",
                                       "sender_category_" \o sender,
                                       corrected_classification, event.id,
                                       SenderCategoryBoost, t)
               ELSE st
    IN IF original_classification \notin {NoValue, ""}
          /\ corrected_classification \notin {NoValue, ""}
       THEN LearnKeywords(st1, keywords, corrected_classification, event.id, t)
       ELSE st

\* PersistentMemory._update_response_preference
_update_response_preference(st, event, approval, t) ==
    LET approved == Get(approval, "approved", FALSE)
        response_style == Get(event.data, "response_style", "")
        intent == Get(event.data, "intent", "")
    IN IF intent # "" /\ response_style # ""
       THEN _update_preference(st, "response", "intent_style_" \o intent,
                               [style |-> response_style, approved |-> approved],
                               event.id,
                               IF approved THEN ApprovedBoost ELSE RejectedBoost, t)
       ELSE st

\* PersistentMemory._update_organization_preference
_update_organization_preference(st, event, preference, t) ==
    LET org_action == Get(preference, "action", NoValue)
        sender == Get(event.data, "email_sender", "")
    IN IF org_action \notin {NoValue, ""} /\ sender # ""
       THEN _update_preference(st, "organization", "sender_action_" \o sender,
                               org_action, event.id, SenderActionBoost, t)
       ELSE st

\* _update_priority_preference that learns from a difference of 1 as well
_update_priority_preference_at_least(st, event, priority_adjustment, t) ==
    LET original_priority == Get(event.data, "calculated_priority", 0)
        adjusted_priority == Get(priority_adjustment, "correct_priority", 0)
        sender == Get(event.data, "email_sender", "")
    IN IF sender # "" /\ Abs(original_priority - adjusted_priority) >= PriorityGap
       THEN _update_preference(st, "priority", "sender_priority_" \o sender,
                               adjusted_priority, event.id, SenderPriorityBoost, t)
       ELSE st

\* PersistentMemory._update_priority_preference
_update_priority_preference(st, event, priority_adjustment, t) ==
    LET original_priority == Get(event.data, "calculated_priority", 0)
        adjusted_priority == Get(priority_adjustment, "correct_priority", 0)
        sender == Get(event.data, "email_sender", "")
    IN IF sender # "" /\ Abs(original_priority - adjusted_priority) > PriorityGap
       THEN _update_preference(st, "priority", "sender_priority_" \o sender,
                               adjusted_priority, event.id, SenderPriorityBoost, t)
       ELSE st

\* PersistentMemory._learn_from_feedback
_learn_from_feedback(st, event_id, feedback_type, feedback_value, t) ==
    LET event == get_event(event_id)
    IN IF event = NoRecord THEN st
       ELSE IF feedback_type = "classification_correction"
            THEN _update_classification_preference(st, event, feedback_value, t)
       ELSE IF feedback_type = "response_approval"
            THEN _update_response_preference(st, event, feedback_value, t)
       ELSE IF feedback_type = "organization_preference"
            THEN _update_organization_preference(st, event, feedback_value, t)
       ELSE IF feedback_type = "priority_adjustment"
            THEN _update_priority_preference(st, event, feedback_value, t)
       ELSE st

-----------------------------------------------------------------------------
(* Inputs of the memory operations *)

EventDataChoices ==
    { [classification_result |-> "promo", email_sender |-> "alice",
       email_keywords |-> <<"sale">>, response_style |-> "formal",
       intent |-> "question", calculated_priority |-> 5],
      [classification_result |-> "promo"] }

FeedbackChoices ==
    { <<"classification_correction", [correct_category |-> c]>> : c \in {"work", "personal"} }
    \cup { <<"response_approval", [approved |-> b]>> : b \in BOOLEAN }
    \cup { <<"organization_preference", [action |-> "archive"]>> }
    \cup { <<"priority_adjustment", [correct_priority |-> p]>> : p \in {6, 7} }

PreferenceQueries ==
    { <<"classification", "sender_category_alice", "unknown">>,
      <<"response", "intent_style_question", [style |-> "plain", approved |-> FALSE]>> }

-----------------------------------------------------------------------------
(* Operations of PersistentMemory *)

\* PersistentMemory.add_event when datetime.now() returns t: the event is
\* cached first, then inserted; an id already in the table (PRIMARY KEY)
\* makes the INSERT raise IntegrityError after the cache was changed.
add_event_at(event_type, data, importance, tags, t) ==
    LET event == [id |-> EventId(event_type, t), timestamp |-> t,
                  event_type |-> event_type, data |-> data,
                  importance |-> importance, tags |-> tags]
    IN /\ clock' = t
       /\ recent_events' = KeepRecent(Append(recent_events, event))
       /\ memory_events' = IF event.id \in EventIds(memory_events)
                           THEN memory_events
                           ELSE Append(memory_events, event)

\* PersistentMemory.add_event on a clock that has advanced since it was last read
add_event(event_type, data, importance, tags) ==
    add_event_at(event_type, data, importance, tags, clock + 1)

AddEvent(data) ==
    /\ Len(memory_events) + Len(user_feedback) < MaxRows
    /\ add_event("email_processed", data, DefaultImportance, <<>>)
    /\ last_get' = NoRecord
    /\ UNCHANGED <<user_feedback, user_preferences, db_user_preferences,
                   merge_calls>>
    /\ UNCHANGED <<agentvars, monvars, threadvars, storevars>>

\* PersistentMemory.add_user_feedback
add_user_feedback(event_id, feedback_type, feedback_value) ==
    /\ LET t == clock + 1
           st == _learn_from_feedback(
                    [prefs |-> user_preferences, db |-> db_user_preferences,
                     calls |-> merge_calls],
                    event_id, feedback_type, feedback_value, t)
       IN /\ clock' = t
          /\ user_feedback' = Append(user_feedback,
                 [feedback_id |-> <<"feedback", t>>, event_id |-> event_id,
                  feedback_type |-> feedback_type,
                  feedback_value |-> feedback_value, timestamp |-> t])
          /\ user_preferences' = st.prefs
          /\ db_user_preferences' = st.db
          /\ merge_calls' = st.calls
    /\ UNCHANGED <<recent_events, memory_events>>

\* add_user_feedback as an operation of the memory
AddUserFeedback(event_id, feedback_type, feedback_value) ==
    /\ Len(memory_events) + Len(user_feedback) < MaxRows
    /\ add_user_feedback(event_id, feedback_type, feedback_value)
    /\ last_get' = NoRecord
    /\ UNCHANGED <<agentvars, monvars, threadvars, storevars>>

\* get_preference that reports the creation confidence for an absent key
get_preference_default_confidence(category, preference_key, default) ==
    LET full_key == FullKey(category, preference_key)
    IN IF full_key \in DOMAIN user_preferences
       THEN <<user_preferences[full_key].preference_value,
              user_preferences[full_key].confidence>>
       ELSE <<default, DefaultConfidence>>

\* PersistentMemory.get_preference
get_preference(category, preference_key, default) ==
    LET full_key == FullKey(category, preference_key)
    IN IF full_key \in DOMAIN user_preferences
       THEN <<user_preferences[full_key].preference_value,
              user_preferences[full_key].confidence>>
       ELSE <<default, 0>>

\* a read that stores the default under a key it does not find
GetPreferenceStoringDefault(category, preference_key, default) ==
    LET full_key == FullKey(category, preference_key)
    IN /\ last_get' = [category |-> category, preference_key |-> preference_key,
                       default |-> default,
                       result |-> get_preference(category, preference_key, default)]
       /\ user_preferences' =
             IF full_key \in DOMAIN user_preferences THEN user_preferences
             ELSE [k \in DOMAIN user_preferences \cup {full_key} |->
                     IF k = full_key
                     THEN [category |-> category, preference_key |-> preference_key,
                           preference_value |-> default,
                           confidence |-> DefaultConfidence,
                           learned_from |-> <<>>, last_updated |-> clock]
                     ELSE user_preferences[k]]
       /\ UNCHANGED <<clock, recent_events, memory_events, user_feedback,
                      db_user_preferences, merge_calls>>
       /\ UNCHANGED <<agentvars, monvars, threadvars, storevars>>

\* PersistentMemory.get_preference as an operation of the memory
GetPreference(category, preference_key, default) ==
    /\ last_get' = [category |-> category, preference_key |-> preference_key,
                    default |-> default,
                    result |-> get_preference(category, preference_key, default)]
    /\ UNCHANGED <<clock, recent_events, memory_events, user_feedback,
                   user_preferences, db_user_preferences, merge_calls>>
    /\ UNCHANGED <<agentvars, monvars, threadvars, storevars>>

-----------------------------------------------------------------------------
(* EmailMasterAgent: program constants, in hundredths *)

ClassificationThreshold == 70
ResponseThreshold == 80
DefaultOrganizationConfidence == 50
WorkflowImportance == 80

Branches == {"classification", "organization", "response"}

\* the key a branch returns its list under, and the section it is merged into
ResultKey(b) ==
    IF b = "classification" THEN "classifications"
    ELSE IF b = "organization" THEN "organization" ELSE "responses"

\* EmailMasterAgent.__init__: workflow_settings
DefaultWorkflowSettings ==
    [auto_classify |-> TRUE, auto_organize |-> TRUE,
     auto_generate_responses |-> TRUE, auto_send_responses |-> FALSE,
     parallel_processing |-> TRUE, batch_size |-> 20]

\* the configurations considered: the default and each flag flipped
WorkflowSettingsChoices ==
    { DefaultWorkflowSettings,
      [DefaultWorkflowSettings EXCEPT !.auto_classify = FALSE],
      [DefaultWorkflowSettings EXCEPT !.auto_organize = FALSE],
      [DefaultWorkflowSettings EXCEPT !.auto_send_responses = TRUE],
      [DefaultWorkflowSettings EXCEPT !.parallel_processing = FALSE] }

\* A Python list; a dict with one key is [type |-> "dict", key, items].
List(items) == [type |-> "list", items |-> items]

\* d[k] = v on a dict
Put(d, k, v) == [x \in DOMAIN d \cup {k} |-> IF x = k THEN v ELSE d[x]]

RECURSIVE SeqsOver(_, _)
\* the sequences of length n over the set S
SeqsOver(S, n) ==
    IF n = 0 THEN {<<>>}
    ELSE {Append(q, x) : q \in SeqsOver(S, n - 1), x \in S}

-----------------------------------------------------------------------------
(* What the three analysis branches may return for a batch *)

ConfidenceLevels == {60, 70, 75, 90}
ResponseConfidenceLevels == {60, 80, 90}

\* _run_classification_batch: one entry per email
ClassificationOutputs(batch) ==
    { [i \in 1..Len(batch) |->
          [email_id |-> batch[i], category |-> "work", confidence |-> cs[i]]]
      : cs \in SeqsOver(ConfidenceLevels, Len(batch)) }

\* _run_organization_analysis: suggestions on the first email
OrganizationOutputs(batch) ==
    LET label == [action |-> "apply_label", target |-> batch[1],
                  value |-> "newsletter", confidence |-> 70]
        archive == [action |-> "archive", target |-> batch[1], confidence |-> 30]
    IN IF batch = <<>> THEN { <<>> }
       ELSE { <<>>, <<label>>, <<archive>>, <<label, archive>> }

\* _run_response_generation: at most one candidate, for the first email
ResponseOutputs(batch) ==
    IF batch = <<>> THEN { <<>> }
    ELSE { <<>> } \cup
         { <<[email_id |-> batch[1], response_text |-> "reply",
              intent |-> "question", confidence |-> c]>>
           : c \in ResponseConfidenceLevels }

BranchOutputs(b, batch) ==
    IF b = "classification" THEN ClassificationOutputs(batch)
    ELSE IF b = "organization" THEN OrganizationOutputs(batch)
    ELSE ResponseOutputs(batch)

\* a branch call returns {key: items} or raises
BranchOutcomes(b, batch) ==
    { [state |-> "raised"] } \cup
    { [state |-> "returned",
       result |-> [type |-> "dict", key |-> ResultKey(b), items |-> out]]
      : out \in BranchOutputs(b, batch) }

\* apply_auto_labels has already called email_tools.add_label for every
\* apply_label suggestion the organization branch returns
LabelsAppliedByOrganizer(outcome) ==
    IF outcome.state = "returned" /\ outcome.result.key = "organization"
    THEN LET labelled == SelectSeq(outcome.result.items,
                                   LAMBDA sug : sug.action = "apply_label")
         IN [i \in 1..Len(labelled) |->
                [op |-> "add_label", email_id |-> labelled[i].target,
                 label |-> labelled[i].value, stage |-> "analyzing"]]
    ELSE <<>>

\* performance_metrics[...] += len(...) at the end of a branch
CountBranch(metrics, outcome) ==
    IF outcome.state # "returned" THEN metrics
    ELSE IF outcome.result.key = "classifications"
    THEN [metrics EXCEPT !.classifications_made = @ + Len(outcome.result.items)]
    ELSE IF outcome.result.key = "organization"
    THEN [metrics EXCEPT !.organization_actions = @ + Len(outcome.result.items)]
    ELSE [metrics EXCEPT !.responses_generated = @ + Len(outcome.result.items)]

-----------------------------------------------------------------------------
(* run_email_analysis_pipeline *)

EmptyResults(batch) ==
    [total_emails |-> Len(batch),
     classification_results |-> List(<<>>),
     organization_suggestions |-> List(<<>>),
     response_candidates |-> List(<<>>)]

\* a failed future drops every section collected so far
MergeResultDroppingAll(res, outcome) ==
    IF outcome.state = "raised"
    THEN [res EXCEPT !.classification_results = List(<<>>),
                     !.organization_suggestions = List(<<>>),
                     !.response_candidates = List(<<>>)]
    ELSE IF outcome.result.key = "classifications"
    THEN [res EXCEPT !.classification_results = List(outcome.result.items)]
    ELSE IF outcome.result.key = "organization"
    THEN [res EXCEPT !.organization_suggestions = List(outcome.result.items)]
    ELSE IF outcome.result.key = "responses"
    THEN [res EXCEPT !.response_candidates = List(outcome.result.items)]
    ELSE res

\* a merge in which the first branch to complete wins: a result is dropped
\* when another section has been filled already
MergeResultFirstWins(res, outcome) ==
    IF outcome.state = "raised" THEN res
    ELSE IF \/ res.classification_results.items # <<>>
            \/ res.organization_suggestions.items # <<>>
            \/ res.response_candidates.items # <<>>
    THEN res
    ELSE IF outcome.result.key = "classifications"
    THEN [res EXCEPT !.classification_results = List(outcome.result.items)]
    ELSE IF outcome.result.key = "organization"
    THEN [res EXCEPT !.organization_suggestions = List(outcome.result.items)]
    ELSE [res EXCEPT !.response_candidates = List(outcome.result.items)]

\* the body of the as_completed loop for one future
MergeResult(res, outcome) ==
    IF outcome.state = "raised" THEN res
    ELSE IF outcome.result.key = "classifications"
    THEN [res EXCEPT !.classification_results = List(outcome.result.items)]
    ELSE IF outcome.result.key = "organization"
    THEN [res EXCEPT !.organization_suggestions = List(outcome.result.items)]
    ELSE IF outcome.result.key = "responses"
    THEN [res EXCEPT !.response_candidates = List(outcome.result.items)]
    ELSE res

\* the sequential branch: each section is assigned what the branch returned
SequentialResults(res, oc, oo, orr) ==
    [res EXCEPT !.classification_results = oc.result,
                !.organization_suggestions = oo.result,
                !.response_candidates = orr.result]

-----------------------------------------------------------------------------
(* coordinate_workflow_execution *)

\* iterating a dict yields its keys, and a key is a str: .get and [..] raise
IterationRaises(section) == section.type = "dict"

CoordinateRaises(analysis_results) ==
    \/ /\ workflow_settings.auto_classify
       /\ IterationRaises(analysis_results.classification_results)
    \/ /\ workflow_settings.auto_organize
       /\ IterationRaises(analysis_results.organization_suggestions)
    \/ IterationRaises(analysis_results.response_candidates)

ApplyClassification(c) ==
    [type |-> "apply_classification", email_id |-> c.email_id,
     category |-> c.category, confidence |-> c.confidence]

ReviewClassification(c) ==
    [type |-> "review_classification", email_id |-> c.email_id,
     suggested_category |-> c.category, confidence |-> c.confidence]

ApplyOrganization(sug) ==
    [type |-> "apply_organization", action |-> sug.action, target |-> sug.target,
     confidence |-> Get(sug, "confidence", DefaultOrganizationConfidence)]

SendResponse(r) ==
    [type |-> "send_response", email_id |-> r.email_id,
     response_text |-> r.response_text]

ReviewResponse(r) ==
    [type |-> "review_response", email_id |-> r.email_id,
     response_text |-> r.response_text, confidence |-> Get(r, "confidence", 0)]

ApplyClassifications(cls) == [i \in 1..Len(cls) |-> ApplyClassification(cls[i])]
ReviewClassifications(cls) == [i \in 1..Len(cls) |-> ReviewClassification(cls[i])]
ApplyOrganizations(org) == [i \in 1..Len(org) |-> ApplyOrganization(org[i])]
SendResponses(rsp) == [i \in 1..Len(rsp) |-> SendResponse(rsp[i])]
ReviewResponses(rsp) == [i \in 1..Len(rsp) |-> ReviewResponse(rsp[i])]

\* classification.get("confidence", 0) > 0.7
ClassificationPasses(c) == Get(c, "confidence", 0) > ClassificationThreshold

\* auto_send_responses and response.get("confidence", 0) > 0.8
ResponsePasses(r) ==
    workflow_settings.auto_send_responses /\ Get(r, "confidence", 0) > ResponseThreshold

\* the plan with classifications gated at the response threshold
coordinate_workflow_execution_wrong_gate(analysis_results) ==
    LET cls == IF workflow_settings.auto_classify
               THEN analysis_results.classification_results.items ELSE <<>>
        org == IF workflow_settings.auto_organize
               THEN analysis_results.organization_suggestions.items ELSE <<>>
        rsp == analysis_results.response_candidates.items
        Passes(c) == Get(c, "confidence", 0) > ResponseThreshold
    IN [immediate_actions |->
            ApplyClassifications(SelectSeq(cls, Passes))
            \o ApplyOrganizations(org)
            \o SendResponses(SelectSeq(rsp, ResponsePasses)),
        user_approval_needed |->
            ReviewClassifications(SelectSeq(cls, LAMBDA c : ~Passes(c)))
            \o ReviewResponses(SelectSeq(rsp, LAMBDA r : ~ResponsePasses(r))),
        scheduled_actions |-> <<>>,
        completed_actions |-> <<>>]

\* the plan with organization suggestions gated like classifications
coordinate_workflow_execution_gated_organization(analysis_results) ==
    LET cls == IF workflow_settings.auto_classify
               THEN analysis_results.classification_results.items ELSE <<>>
        org == IF workflow_settings.auto_organize
               THEN SelectSeq(analysis_results.organization_suggestions.items,
                              ClassificationPasses)
               ELSE <<>>
        rsp == analysis_results.response_candidates.items
    IN [immediate_actions |->
            ApplyClassifications(SelectSeq(cls, ClassificationPasses))
            \o ApplyOrganizations(org)
            \o SendResponses(SelectSeq(rsp, ResponsePasses)),
        user_approval_needed |->
            ReviewClassifications(SelectSeq(cls, LAMBDA c : ~ClassificationPasses(c)))
            \o ReviewResponses(SelectSeq(rsp, LAMBDA r : ~ResponsePasses(r))),
        scheduled_actions |-> <<>>,
        completed_actions |-> <<>>]

\* coordinate_workflow_execution, on sections that are lists
coordinate_workflow_execution(analysis_results) ==
    LET cls == IF workflow_settings.auto_classify
               THEN analysis_results.classification_results.items ELSE <<>>
        org == IF workflow_settings.auto_organize
               THEN analysis_results.organization_suggestions.items ELSE <<>>
        rsp == analysis_results.response_candidates.items
    IN [immediate_actions |->
            ApplyClassifications(SelectSeq(cls, ClassificationPasses))
            \o ApplyOrganizations(org)
            \o SendResponses(SelectSeq(rsp, ResponsePasses)),
        user_approval_needed |->
            ReviewClassifications(SelectSeq(cls, LAMBDA c : ~ClassificationPasses(c)))
            \o ReviewResponses(SelectSeq(rsp, LAMBDA r : ~ResponsePasses(r))),
        scheduled_actions |-> <<>>,
        completed_actions |-> <<>>]

-----------------------------------------------------------------------------
(* execute_workflow_actions *)

\* EmailTools.add_label and EmailTools.archive_email log and return True
add_label(email_id, label) == TRUE
archive_email(email_id) == TRUE

\* EmailMasterAgent._execute_single_action: what it returns or that it raises,
\* and the email_tools calls it makes
_execute_single_action(action) ==
    LET action_type == Get(action, "type", NoValue)
    IN IF action_type = "apply_classification"
       THEN [raised |-> FALSE,
             value |-> add_label(action.email_id, "category:" \o action.category),
             calls |-> <<[op |-> "add_label", email_id |-> action.email_id,
                          label |-> "category:" \o action.category,
                          stage |-> "executing"]>>]
       ELSE IF action_type = "apply_organization"
       THEN IF action.action = "apply_label"
            THEN IF "value" \in DOMAIN action
                 THEN [raised |-> FALSE, value |-> add_label(action.target, action.value),
                       calls |-> <<[op |-> "add_label", email_id |-> action.target,
                                    label |-> action.value, stage |-> "executing"]>>]
                 ELSE [raised |-> TRUE, error |-> "'value'", calls |-> <<>>]
            ELSE IF action.action = "archive"
            THEN [raised |-> FALSE, value |-> archive_email(action.target),
                  calls |-> <<[op |-> "archive_email", email_id |-> action.target,
                               label |-> "", stage |-> "executing"]>>]
            ELSE [raised |-> FALSE, value |-> FALSE, calls |-> <<>>]
       ELSE IF action_type = "send_response"
       THEN [raised |-> FALSE, value |-> TRUE, calls |-> <<>>]
       ELSE [raised |-> FALSE, value |-> FALSE, calls |-> <<>>]

\* one iteration of the loop: tally and detail of one action
Tally(acc, action, t) ==
    LET r == _execute_single_action(action)
    IN IF r.raised
       THEN [acc EXCEPT !.failed_actions = @ + 1,
                        !.action_details = Append(@, [action |-> action,
                              result |-> "error: " \o r.error, timestamp |-> t]),
                        !.calls = @ \o r.calls]
       ELSE IF r.value
       THEN [acc EXCEPT !.successful_actions = @ + 1,
                        !.action_details = Append(@, [action |-> action,
                              result |-> "success", timestamp |-> t]),
                        !.calls = @ \o r.calls]
       ELSE [acc EXCEPT !.failed_actions = @ + 1,
                        !.action_details = Append(@, [action |-> action,
                              result |-> "failed", timestamp |-> t]),
                        !.calls = @ \o r.calls]

RECURSIVE TallyAll(_, _, _)
TallyAll(acc, actions, t) ==
    IF actions = <<>> THEN acc
    ELSE TallyAll(Tally(acc, Head(actions), t), Tail(actions), t)

RECURSIVE TallyUntilRaise(_, _, _)
TallyUntilRaise(acc, actions, t) ==
    IF actions = <<>> THEN acc
    ELSE IF _execute_single_action(Head(actions)).raised
    THEN Tally(acc, Head(actions), t)
    ELSE TallyUntilRaise(Tally(acc, Head(actions), t), Tail(actions), t)

EmptyTally ==
    [successful_actions |-> 0, failed_actions |-> 0, action_details |-> <<>>,
     calls |-> <<>>]

\* the loop that stops at the first action that raises
execute_workflow_actions_stop_on_raise(plan, t) ==
    TallyUntilRaise(EmptyTally, Get(plan, "immediate_actions", <<>>), t)

\* execute_workflow_actions; .calls are the email_tools calls made on the way
execute_workflow_actions(plan, t) ==
    TallyAll(EmptyTally, Get(plan, "immediate_actions", <<>>), t)

ExecutionResults(tally) ==
    [successful_actions |-> tally.successful_actions,
     failed_actions |-> tally.failed_actions,
     action_details |-> tally.action_details]

-----------------------------------------------------------------------------
(* BaseAgent.run_cycle on EmailMasterAgent, stage by stage *)

NotCalled == [state |-> "not_called"]
Running == [state |-> "running"]

\* perceive, think and the start of act up to the submission of the branches
StartCycle(n) ==
    /\ pc = "idle"
    /\ UNCHANGED <<monvars, threadvars, storevars>>
    /\ clock' = clock + 1
    /\ last_get' = [category |-> "workflow", preference_key |-> "auto_respond",
                    default |-> FALSE,
                    result |-> get_preference("workflow", "auto_respond", FALSE)]
    /\ IF n = 0
       THEN /\ pc' = "done"
            /\ cycle_result' = [success |-> TRUE, results |-> <<>>]
            /\ UNCHANGED <<emails, branch_calls, results, workflow_result>>
       ELSE /\ pc' = "analyzing"
            /\ emails' = [i \in 1..n |-> i]
            /\ workflow_result' = [workflow_type |-> "comprehensive_email_processing",
                                   emails_processed |-> n,
                                   start_time |-> clock + 1]
            /\ results' = EmptyResults(emails')
            /\ branch_calls' = IF workflow_settings.parallel_processing
                               THEN [b \in Branches |-> Running]
                               ELSE branch_calls
            /\ UNCHANGED cycle_result
    /\ UNCHANGED <<recent_events, memory_events, user_feedback, user_preferences,
                   db_user_preferences, merge_calls, workflow_settings,
                   performance_metrics, pipeline_results, execution_plan,
                   mailbox_calls>>

\* the collection loop leaving at the first future that completes
CollectFirstCompleted(b) ==
    /\ pc = "analyzing"
    /\ UNCHANGED <<monvars, threadvars, storevars>>
    /\ workflow_settings.parallel_processing
    /\ branch_calls[b] = Running
    /\ \E outcome \in BranchOutcomes(b, emails) :
          /\ branch_calls' = [branch_calls EXCEPT ![b] = outcome]
          /\ results' = MergeResult(results, outcome)
          /\ performance_metrics' = CountBranch(performance_metrics, outcome)
          /\ mailbox_calls' = mailbox_calls \o LabelsAppliedByOrganizer(outcome)
    /\ pipeline_results' = results'
    /\ workflow_result' = Put(workflow_result, "analysis_results", results')
    /\ pc' = "coordinate"
    /\ UNCHANGED <<memvars, workflow_settings, emails, execution_plan, cycle_result>>

\* parallel mode: future b completes and the as_completed loop handles it;
\* after the last one the pipeline returns and act keeps the result
Collect(b) ==
    /\ pc = "analyzing"
    /\ UNCHANGED <<monvars, threadvars, storevars>>
    /\ workflow_settings.parallel_processing
    /\ branch_calls[b] = Running
    /\ \E outcome \in BranchOutcomes(b, emails) :
          /\ branch_calls' = [branch_calls EXCEPT ![b] = outcome]
          /\ results' = MergeResult(results, outcome)
          /\ performance_metrics' = CountBranch(performance_metrics, outcome)
          /\ mailbox_calls' = mailbox_calls \o LabelsAppliedByOrganizer(outcome)
    /\ IF \A o \in Branches \ {b} : branch_calls[o] # Running
       THEN /\ pipeline_results' = results'
            /\ workflow_result' = Put(workflow_result, "analysis_results", results')
            /\ pc' = "coordinate"
       ELSE UNCHANGED <<pipeline_results, workflow_result, pc>>
    /\ UNCHANGED <<memvars, workflow_settings, emails, execution_plan, cycle_result>>

\* sequential mode: the three branches are called in turn; the first that
\* raises makes the tool fail and pipeline_results stays None
SequentialOutcome(oc, oo, orr) ==
    /\ IF oc.state = "raised"
       THEN /\ branch_calls' = [branch_calls EXCEPT !["classification"] = oc]
            /\ UNCHANGED <<results, pipeline_results, workflow_result,
                           performance_metrics, mailbox_calls>>
       ELSE IF oo.state = "raised"
       THEN /\ branch_calls' = [branch_calls EXCEPT !["classification"] = oc,
                                                     !["organization"] = oo]
            /\ results' = [results EXCEPT !.classification_results = oc.result]
            /\ performance_metrics' = CountBranch(performance_metrics, oc)
            /\ UNCHANGED <<pipeline_results, workflow_result, mailbox_calls>>
       ELSE IF orr.state = "raised"
       THEN /\ branch_calls' = [classification |-> oc, organization |-> oo,
                                response |-> orr]
            /\ results' = [results EXCEPT !.classification_results = oc.result,
                                          !.organization_suggestions = oo.result]
            /\ performance_metrics' =
                   CountBranch(CountBranch(performance_metrics, oc), oo)
            /\ mailbox_calls' = mailbox_calls \o LabelsAppliedByOrganizer(oo)
            /\ UNCHANGED <<pipeline_results, workflow_result>>
       ELSE /\ branch_calls' = [classification |-> oc, organization |-> oo,
                                response |-> orr]
            /\ results' = SequentialResults(results, oc, oo, orr)
            /\ performance_metrics' =
                   CountBranch(CountBranch(CountBranch(performance_metrics, oc), oo), orr)
            /\ mailbox_calls' = mailbox_calls \o LabelsAppliedByOrganizer(oo)
            /\ pipeline_results' = results'
            /\ workflow_result' = Put(workflow_result, "analysis_results", results')

AnalyzeSequential ==
    /\ pc = "analyzing"
    /\ UNCHANGED <<monvars, threadvars, storevars>>
    /\ ~workflow_settings.parallel_processing
    /\ pc' = "coordinate"
    /\ \E oc \in BranchOutcomes("classification", emails),
          oo \in BranchOutcomes("organization", emails),
          orr \in BranchOutcomes("response", emails) : SequentialOutcome(oc, oo, orr)
    /\ UNCHANGED <<memvars, workflow_settings, emails, execution_plan, cycle_result>>

\* act, step coordinate_workflow: skipped without pipeline_results; a tool
\* that raises leaves execution_plan None
CoordinateWorkflow ==
    /\ pc = "coordinate"
    /\ UNCHANGED <<monvars, threadvars, storevars>>
    /\ pc' = "execute"
    /\ IF pipeline_results # NoRecord /\ ~CoordinateRaises(pipeline_results)
       THEN /\ execution_plan' = coordinate_workflow_execution(pipeline_results)
            /\ workflow_result' = Put(workflow_result, "execution_plan", execution_plan')
       ELSE UNCHANGED <<execution_plan, workflow_result>>
    /\ UNCHANGED <<memvars, workflow_settings, performance_metrics, emails,
                   branch_calls, results, pipeline_results, mailbox_calls,
                   cycle_result>>

\* act, step execute_actions: skipped without execution_plan
ExecuteActions ==
    /\ pc = "execute"
    /\ UNCHANGED <<monvars, threadvars, storevars>>
    /\ pc' = "report"
    /\ IF execution_plan # NoRecord
       THEN LET tally == execute_workflow_actions(execution_plan, clock + 1)
            IN /\ clock' = clock + 1
               /\ workflow_result' = Put(workflow_result, "execution_results",
                                         ExecutionResults(tally))
               /\ mailbox_calls' = mailbox_calls \o tally.calls
       ELSE UNCHANGED <<clock, workflow_result, mailbox_calls>>
    /\ UNCHANGED <<recent_events, memory_events, user_feedback, user_preferences,
                   db_user_preferences, merge_calls, last_get, workflow_settings,
                   performance_metrics, emails, branch_calls, results,
                   pipeline_results, execution_plan, cycle_result>>

\* monitor_performance: the part of the report that depends on the state
monitor_agent_performance ==
    [workflow_metrics |-> performance_metrics,
     memory_usage |-> [total_events |-> Len(recent_events),
                       total_preferences |-> Cardinality(DOMAIN user_preferences)]]

\* the end of act recording the workflow as an ordinary, untagged event
ReportAsOrdinaryEvent ==
    /\ pc = "report"
    /\ UNCHANGED <<monvars, threadvars, storevars>>
    /\ pc' = "done"
    /\ LET final == Put(Put(workflow_result, "performance_report",
                            monitor_agent_performance),
                        "end_time", clock + 1)
       IN /\ workflow_result' = final
          /\ add_event("email_processed", final, DefaultImportance, <<>>)
          /\ performance_metrics' =
                [performance_metrics EXCEPT !.emails_processed = @ + Len(emails)]
          /\ cycle_result' = [success |-> TRUE,
                              results |-> <<[success |-> TRUE, result |-> final]>>]
    /\ UNCHANGED <<user_feedback, user_preferences, db_user_preferences, merge_calls,
                   last_get, workflow_settings, emails, branch_calls, results,
                   pipeline_results, execution_plan, mailbox_calls>>

\* act, step monitor_performance and the recording of the workflow; then
\* run_cycle builds its result, or catches what add_event raised
Report ==
    /\ pc = "report"
    /\ UNCHANGED <<monvars, threadvars, storevars>>
    /\ pc' = "done"
    /\ LET final == Put(Put(workflow_result, "performance_report",
                            monitor_agent_performance),
                        "end_time", clock + 1)
           raised == EventId("workflow_execution", clock + 1) \in EventIds(memory_events)
       IN /\ workflow_result' = final
          /\ add_event("workflow_execution", final, WorkflowImportance,
                       <<"workflow", "email_processing">>)
          /\ IF raised
             THEN /\ cycle_result' = [success |-> FALSE, error |-> "cycle failed"]
                  /\ UNCHANGED performance_metrics
             ELSE /\ performance_metrics' =
                        [performance_metrics EXCEPT !.emails_processed = @ + Len(emails)]
                  /\ cycle_result' = [success |-> TRUE,
                                      results |-> <<[success |-> TRUE, result |-> final]>>]
    /\ UNCHANGED <<user_feedback, user_preferences, db_user_preferences, merge_calls,
                   last_get, workflow_settings, emails, branch_calls, results,
                   pipeline_results, execution_plan, mailbox_calls>>

\* add_event when the INSERT (or the commit) raises sqlite3.Error: the event
\* is already in the cache, no row is written, the exception leaves add_event
add_event_write_raises(event_type, data, importance, tags) ==
    LET t == clock + 1
        event == [id |-> EventId(event_type, t), timestamp |-> t,
                  event_type |-> event_type, data |-> data,
                  importance |-> importance, tags |-> tags]
    IN /\ clock' = t
       /\ recent_events' = KeepRecent(Append(recent_events, event))
       /\ UNCHANGED memory_events

\* the end of act when the durable write of the workflow event fails: the
\* exception leaves act before results.append and run_cycle catches it
ReportStorageFailure ==
    /\ pc = "report"
    /\ UNCHANGED <<monvars, threadvars, storevars>>
    /\ pc' = "done"
    /\ LET final == Put(Put(workflow_result, "performance_report",
                            monitor_agent_performance),
                        "end_time", clock + 1)
       IN /\ workflow_result' = final
          /\ add_event_write_raises("workflow_execution", final, WorkflowImportance,
                                    <<"workflow", "email_processing">>)
          /\ cycle_result' = [success |-> FALSE, error |-> "cycle failed"]
    /\ UNCHANGED <<user_feedback, user_preferences, db_user_preferences, merge_calls,
                   last_get, workflow_settings, performance_metrics, emails,
                   branch_calls, results, pipeline_results, execution_plan,
                   mailbox_calls>>

-----------------------------------------------------------------------------
(* PerformanceMonitor *)

\* PerformanceMonitor.__init__: buffer_size default, thresholds (seconds, percent)
DefaultBufferSize == 1000
MaxExecutionTime == 30
MinSuccessRate == 85
MinOperationsForRate == 10

\* the number of operations ended and tool usages recorded in one run
MaxOps == 3

\* the capacities the monitor is constructed with
BufferSizes == {1, 2}

OperationIds == {"op1", "op2"}
\* the operations callers start: operation_id, agent_name, operation_type
StartInputs == { <<"op1", "classifier", "classify">>, <<"op2", "responder", "respond">> }
\* seconds between the last reading of time.time() and the end of an
\* operation: at the threshold and above it
Delays == {30, 35}

\* an append that refuses the new item when the buffer is full
DequeAppendKeepingOldest(buffer, maxlen, x) ==
    IF Len(buffer) < maxlen THEN Append(buffer, x) ELSE buffer

\* deque(maxlen=n).append: a full deque discards its leftmost item
DequeAppend(buffer, maxlen, x) ==
    IF maxlen = 0 THEN <<>>
    ELSE IF Len(buffer) < maxlen THEN Append(buffer, x)
    ELSE Append(Tail(buffer), x)

\* the defaultdict factory of agent_stats
NewAgentStats ==
    [total_operations |-> 0, successful_operations |-> 0, failed_operations |-> 0,
     total_execution_time |-> 0, tool_usage |-> EmptyDict, error_types |-> EmptyDict]

\* self.agent_stats[agent_name]
StatsOf(stats, agent_name) ==
    IF agent_name \in DOMAIN stats THEN stats[agent_name] ELSE NewAgentStats

\* d[k] += 1 on a defaultdict(int)
Increment(d, k) == Put(d, k, Get(d, k, 0) + 1)

\* statistics that count an operation in the total only when it succeeded
UpdatedStatsSuccessOnly(old, execution_time, success, error_info) ==
    IF success
    THEN [old EXCEPT !.total_operations = @ + 1,
                     !.total_execution_time = @ + execution_time,
                     !.successful_operations = @ + 1]
    ELSE [old EXCEPT !.failed_operations = @ + 1]

\* end_operation: the statistics of the owner after the operation
UpdatedStats(old, execution_time, success, error_info) ==
    LET counted == [old EXCEPT !.total_operations = @ + 1,
                               !.total_execution_time = @ + execution_time]
    IN IF success
       THEN [counted EXCEPT !.successful_operations = @ + 1]
       ELSE IF error_info # NoValue
       THEN [counted EXCEPT !.failed_operations = @ + 1,
                            !.error_types = Increment(@, error_info)]
       ELSE [counted EXCEPT !.failed_operations = @ + 1]

\* PerformanceMonitor._check_performance_thresholds: the warnings it logs
_check_performance_thresholds(stats, agent_name, execution_time, success) ==
    (IF execution_time > MaxExecutionTime
     THEN <<[warning |-> "slow_operation", agent_name |-> agent_name,
             execution_time |-> execution_time]>>
     ELSE <<>>)
    \o
    (IF /\ stats[agent_name].total_operations >= MinOperationsForRate
        /\ stats[agent_name].successful_operations * 100
             < MinSuccessRate * stats[agent_name].total_operations
     THEN <<[warning |-> "low_success_rate", agent_name |-> agent_name,
             execution_time |-> execution_time]>>
     ELSE <<>>)

\* PerformanceMonitor.start_operation
StartOperation(operation_id, agent_name, operation_type) ==
    /\ Len(appended) < MaxOps
    /\ active_operations' =
          Put(active_operations, operation_id,
              [agent_name |-> agent_name, operation_type |-> operation_type,
               start_time |-> time_now])
    /\ UNCHANGED <<buffer_size, metrics_buffer, agent_stats, time_now, appended,
                   warnings>>
    /\ UNCHANGED <<memvars, agentvars, threadvars, storevars>>

\* end_operation that drops the metric of a slow operation
EndOperationDroppingSlow(operation_id, success, error_info) ==
    /\ Len(appended) < MaxOps
    /\ operation_id \in DOMAIN active_operations
    /\ \E d \in Delays :
          LET operation == active_operations[operation_id]
              end_time == time_now + d
              execution_time == end_time - operation.start_time
              agent_name == operation.agent_name
              stats == Put(agent_stats, agent_name,
                           UpdatedStats(StatsOf(agent_stats, agent_name),
                                        execution_time, success, error_info))
              metric == [metric_name |-> "operation_execution_time",
                         value |-> execution_time, timestamp |-> end_time,
                         agent_name |-> agent_name,
                         context |-> [operation_type |-> operation.operation_type,
                                      success |-> success, error_info |-> error_info]]
              slow == execution_time > MaxExecutionTime
          IN /\ time_now' = end_time
             /\ active_operations' =
                   [k \in DOMAIN active_operations \ {operation_id} |->
                       active_operations[k]]
             /\ agent_stats' = stats
             /\ metrics_buffer' = IF slow THEN metrics_buffer
                                  ELSE DequeAppend(metrics_buffer, buffer_size, metric)
             /\ appended' = IF slow THEN appended ELSE Append(appended, metric)
             /\ warnings' = warnings \o
                   _check_performance_thresholds(stats, agent_name, execution_time, success)
    /\ UNCHANGED buffer_size
    /\ UNCHANGED <<memvars, agentvars, threadvars, storevars>>

\* PerformanceMonitor.end_operation
EndOperation(operation_id, success, error_info) ==
    IF operation_id \notin DOMAIN active_operations
    THEN /\ Len(appended) + Len(warnings) < MaxOps
         /\ warnings' = Append(warnings, [warning |-> "operation_not_found",
                                          agent_name |-> NoValue, execution_time |-> 0])
         /\ UNCHANGED <<buffer_size, metrics_buffer, active_operations, agent_stats,
                        time_now, appended>>
         /\ UNCHANGED <<memvars, agentvars, threadvars, storevars>>
    ELSE
    /\ Len(appended) < MaxOps
    /\ \E d \in Delays :
          LET operation == active_operations[operation_id]
              end_time == time_now + d
              execution_time == end_time - operation.start_time
              agent_name == operation.agent_name
              stats == Put(agent_stats, agent_name,
                           UpdatedStats(StatsOf(agent_stats, agent_name),
                                        execution_time, success, error_info))
              metric == [metric_name |-> "operation_execution_time",
                         value |-> execution_time, timestamp |-> end_time,
                         agent_name |-> agent_name,
                         context |-> [operation_type |-> operation.operation_type,
                                      success |-> success, error_info |-> error_info]]
          IN /\ time_now' = end_time
             /\ active_operations' =
                   [k \in DOMAIN active_operations \ {operation_id} |->
                       active_operations[k]]
             /\ agent_stats' = stats
             /\ metrics_buffer' = DequeAppend(metrics_buffer, buffer_size, metric)
             /\ appended' = Append(appended, metric)
             /\ warnings' = warnings \o
                   _check_performance_thresholds(stats, agent_name, execution_time, success)
    /\ UNCHANGED buffer_size
    /\ UNCHANGED <<memvars, agentvars, threadvars, storevars>>

\* PerformanceMonitor.record_tool_usage
RecordToolUsage(agent_name, tool_name, execution_time, success) ==
    /\ Len(appended) < MaxOps
    /\ LET old == StatsOf(agent_stats, agent_name)
           metric == [metric_name |-> "tool_execution_time",
                      value |-> execution_time, timestamp |-> time_now,
                      agent_name |-> agent_name,
                      context |-> [tool_name |-> tool_name, success |-> success]]
       IN /\ agent_stats' = Put(agent_stats, agent_name,
                                [old EXCEPT !.tool_usage = Increment(@, tool_name)])
          /\ metrics_buffer' = DequeAppend(metrics_buffer, buffer_size, metric)
          /\ appended' = Append(appended, metric)
    /\ UNCHANGED <<buffer_size, active_operations, time_now, warnings>>
    /\ UNCHANGED <<memvars, agentvars, threadvars, storevars>>

\* the inputs of end_operation: success, or failure with its error_info
EndInputs == { <<TRUE, NoValue>>, <<FALSE, "timeout">> }

-----------------------------------------------------------------------------
(* The state after construction on an empty database *)

MemoryInit ==
    /\ clock = 0
    /\ recent_events = <<>>
    /\ memory_events = <<>>
    /\ user_feedback = <<>>
    /\ user_preferences = EmptyDict
    /\ db_user_preferences = EmptyDict
    /\ merge_calls = <<>>
    /\ last_get = NoRecord
    /\ add_event_calls = <<>>
    /\ last_search = NoRecord

\* EmailMasterAgent.__init__, before any cycle
AgentInit ==
    /\ performance_metrics = [emails_processed |-> 0, classifications_made |-> 0,
                              responses_generated |-> 0, organization_actions |-> 0,
                              user_feedback_received |-> 0]
    /\ pc = "idle"
    /\ emails = <<>>
    /\ branch_calls = [b \in Branches |-> NotCalled]
    /\ results = NoRecord
    /\ pipeline_results = NoRecord
    /\ execution_plan = NoRecord
    /\ workflow_result = NoRecord
    /\ mailbox_calls = <<>>
    /\ cycle_result = NoRecord

\* PerformanceMonitor.__init__
MonitorInit ==
    /\ metrics_buffer = <<>>
    /\ active_operations = EmptyDict
    /\ agent_stats = EmptyDict
    /\ time_now = 0
    /\ appended = <<>>
    /\ warnings = <<>>

MemoryNext ==
    \/ \E data \in EventDataChoices : AddEvent(data)
    \/ \E event_id \in EventIds(memory_events) \cup {UnknownEventId},
          f \in FeedbackChoices : AddUserFeedback(event_id, f[1], f[2])
    \/ \E q \in PreferenceQueries : GetPreference(q[1], q[2], q[3])

\* the memory under arbitrary calls, the agent idle in its default configuration
SpecMemoryInit ==
    /\ MemoryInit
    /\ AgentInit
    /\ workflow_settings = DefaultWorkflowSettings
    /\ MonitorInit
    /\ buffer_size = DefaultBufferSize
    /\ feedback_calls = EmptyDict

SpecMemory == SpecMemoryInit /\ [][MemoryNext]_vars

\* one run_cycle on a fresh memory, in each configuration considered
CycleInit ==
    /\ MemoryInit
    /\ AgentInit
    /\ workflow_settings \in WorkflowSettingsChoices
    /\ MonitorInit
    /\ buffer_size = DefaultBufferSize
    /\ feedback_calls = EmptyDict

CycleNext ==
    \/ \E n \in 0..MaxBatch : StartCycle(n)
    \/ \E b \in Branches : Collect(b)
    \/ AnalyzeSequential
    \/ CoordinateWorkflow
    \/ ExecuteActions
    \/ Report

SpecCycle == CycleInit /\ [][CycleNext]_vars

\* one run_cycle in which the durable write of the workflow event may fail
CycleStorageNext ==
    \/ CycleNext
    \/ ReportStorageFailure

SpecCycleStorage == CycleInit /\ [][CycleStorageNext]_vars

\* a monitor of a small capacity under arbitrary calls, memory and agent idle
MonitorSpecInit ==
    /\ MemoryInit
    /\ AgentInit
    /\ workflow_settings = DefaultWorkflowSettings
    /\ MonitorInit
    /\ buffer_size \in BufferSizes
    /\ feedback_calls = EmptyDict

MonitorNext ==
    \/ \E i \in StartInputs : StartOperation(i[1], i[2], i[3])
    \/ \E operation_id \in OperationIds, i \in EndInputs :
          EndOperation(operation_id, i[1], i[2])
    \/ RecordToolUsage("classifier", "classify_category", 1, TRUE)

SpecMonitor == MonitorSpecInit /\ [][MonitorNext]_vars

-----------------------------------------------------------------------------
(* process_user_feedback called from two threads at once *)

\* the thread that imported the memory module (and so opened the sqlite3
\* connection) and two other threads
CreatorThread == "creator"
Threads == {"creator", "worker1", "worker2"}

\* two events of the same sender and intent, loaded from the database
LoadedEvents ==
    [i \in 1..2 |->
        [id |-> EventId("email_processed", i), timestamp |-> i,
         event_type |-> "email_processed",
         data |-> [classification_result |-> "promo", email_sender |-> "alice",
                   email_keywords |-> <<"sale">>, response_style |-> "formal",
                   intent |-> "question", calculated_priority |-> 5],
         importance |-> DefaultImportance, tags |-> <<>>]]

\* sqlite3.connect without check_same_thread=False: connection.cursor() raises
\* ProgrammingError in every thread but the one that opened the connection
CursorRaises(thread) == thread # CreatorThread

\* EmailMasterAgent.process_user_feedback, run by one thread
ProcessUserFeedback(thread) ==
    /\ thread \in DOMAIN feedback_calls
    /\ feedback_calls[thread].state = "pending"
    /\ IF CursorRaises(thread)
       THEN /\ feedback_calls' = [feedback_calls EXCEPT ![thread].state = "returned",
                                                        ![thread].returned = FALSE]
            /\ UNCHANGED <<memvars, performance_metrics>>
       ELSE /\ add_user_feedback(feedback_calls[thread].event_id,
                                 feedback_calls[thread].feedback_type,
                                 feedback_calls[thread].feedback_value)
            /\ performance_metrics' =
                  [performance_metrics EXCEPT !.user_feedback_received = @ + 1]
            /\ feedback_calls' = [feedback_calls EXCEPT ![thread].state = "returned",
                                                        ![thread].returned = TRUE]
            /\ UNCHANGED last_get
    /\ UNCHANGED <<workflow_settings, pc, emails, branch_calls, results,
                   pipeline_results, execution_plan, workflow_result, mailbox_calls,
                   cycle_result>>
    /\ UNCHANGED <<monvars, storevars>>

\* a call of process_user_feedback that has not started
PendingCall(event_id, f) ==
    [state |-> "pending", returned |-> FALSE, event_id |-> event_id,
     feedback_type |-> f[1], feedback_value |-> f[2]]

\* two threads, each about to submit feedback on one of the loaded events
ThreadsInit ==
    /\ clock = 2
    /\ recent_events = LoadedEvents
    /\ memory_events = LoadedEvents
    /\ user_feedback = <<>>
    /\ user_preferences = EmptyDict
    /\ db_user_preferences = EmptyDict
    /\ merge_calls = <<>>
    /\ last_get = NoRecord
    /\ add_event_calls = <<>>
    /\ last_search = NoRecord
    /\ AgentInit
    /\ workflow_settings = DefaultWorkflowSettings
    /\ MonitorInit
    /\ buffer_size = DefaultBufferSize
    /\ \E t1, t2 \in Threads :
          /\ t1 # t2
          /\ \E f1, f2 \in FeedbackChoices :
                feedback_calls =
                   [t \in {t1, t2} |->
                       IF t = t1 THEN PendingCall(EventId("email_processed", 1), f1)
                       ELSE PendingCall(EventId("email_processed", 2), f2)]

ThreadsNext == \E thread \in Threads : ProcessUserFeedback(thread)

SpecFeedbackThreads == ThreadsInit /\ [][ThreadsNext]_vars

-----------------------------------------------------------------------------
(* The event store: add_event on a clock that may repeat, search_events *)

\* search_events: limit: int = 100
DefaultLimit == 100

\* the (event_type, tags) pairs add_event is called with
AppendInputs ==
    { <<"email_processed", <<>>>>,
      <<"email_processed", <<"urgent">>>>,
      <<"workflow_execution", <<"workflow", "email_processing">>>> }

\* by how much datetime.now() has moved since it was last read: not at all
\* (the same microsecond, or local time set back) or forward
ClockSteps == {0, 1}

\* the keyword arguments search_events is called with
SearchQueries ==
    { [limit |-> 1],
      [event_type |-> "email_processed", limit |-> 2],
      [tags |-> <<"urgent">>, limit |-> 1],
      [tags |-> <<"urgent">>],
      [event_type |-> "email_processed", tags |-> <<"urgent">>, since |-> 2,
       limit |-> 2] }

\* the data of the n-th event appended
EventData(n) == [classification_result |-> "promo", sequence_number |-> n]

\* add_event called with a clock reading step after the last one
AppendEvent(event_type, tags, step) ==
    /\ Len(add_event_calls) < MaxRows
    /\ LET t == clock + step
           event_id == EventId(event_type, t)
           data == EventData(Len(add_event_calls) + 1)
       IN /\ add_event_at(event_type, data, DefaultImportance, tags, t)
          /\ add_event_calls' = Append(add_event_calls,
                [event_id |-> event_id, event_type |-> event_type, data |-> data,
                 tags |-> tags, timestamp |-> t,
                 outcome |-> IF event_id \in EventIds(memory_events)
                             THEN "IntegrityError" ELSE "returned"])
    /\ last_search' = NoRecord
    /\ UNCHANGED <<user_feedback, user_preferences, db_user_preferences,
                   merge_calls, last_get>>
    /\ UNCHANGED <<agentvars, monvars, threadvars>>

\* add_event whose INSERT or commit raises sqlite3.OperationalError
AppendEventWriteRaises(event_type, tags) ==
    /\ Len(add_event_calls) < MaxRows
    /\ LET data == EventData(Len(add_event_calls) + 1)
       IN /\ add_event_write_raises(event_type, data, DefaultImportance, tags)
          /\ add_event_calls' = Append(add_event_calls,
                [event_id |-> EventId(event_type, clock + 1),
                 event_type |-> event_type, data |-> data,
                 tags |-> tags, timestamp |-> clock + 1,
                 outcome |-> "OperationalError"])
    /\ last_search' = NoRecord
    /\ UNCHANGED <<user_feedback, user_preferences, db_user_preferences,
                   merge_calls, last_get>>
    /\ UNCHANGED <<agentvars, monvars, threadvars>>

\* s without its i-th element
RemoveAt(s, i) == SubSeq(s, 1, i - 1) \o SubSeq(s, i + 1, Len(s))

\* ORDER BY timestamp DESC: rows of equal timestamp stay in rowid order
RECURSIVE OrderByTimestampDesc(_)
OrderByTimestampDesc(rows) ==
    IF rows = <<>> THEN <<>>
    ELSE LET i == CHOOSE j \in 1..Len(rows) :
                     /\ \A k \in 1..Len(rows) : rows[k].timestamp <= rows[j].timestamp
                     /\ \A k \in 1..(j - 1) : rows[k].timestamp < rows[j].timestamp
         IN <<rows[i]>> \o OrderByTimestampDesc(RemoveAt(rows, i))

\* LIMIT ?
Limit(rows, n) == SubSeq(rows, 1, Min(n, Len(rows)))

\* any(tag in event.tags for tag in tags)
AnyTagIn(tags, event) ==
    \E i \in 1..Len(tags) : \E j \in 1..Len(event.tags) : tags[i] = event.tags[j]

\* the WHERE clause search_events builds
Where(row, event_type, kwargs) ==
    /\ event_type \in {NoValue, ""} \/ row.event_type = event_type
    /\ "since" \in DOMAIN kwargs => row.timestamp >= kwargs.since

\* PersistentMemory.search_events: the rows are selected, ordered and limited
\* by the query; the tag filter is applied to the rows fetched
search_events(kwargs) ==
    LET event_type == Get(kwargs, "event_type", NoValue)
        tags == Get(kwargs, "tags", <<>>)
        limit == Get(kwargs, "limit", DefaultLimit)
        selected == SelectSeq(memory_events, LAMBDA row : Where(row, event_type, kwargs))
        fetched == Limit(OrderByTimestampDesc(selected), limit)
    IN SelectSeq(fetched, LAMBDA event : tags = <<>> \/ AnyTagIn(tags, event))

\* PersistentMemory.search_events as an operation of the memory
SearchEvents(kwargs) ==
    /\ last_search' = [kwargs |-> kwargs, result |-> search_events(kwargs)]
    /\ UNCHANGED add_event_calls
    /\ UNCHANGED <<memvars, agentvars, monvars, threadvars>>

EventStoreNext ==
    \/ \E i \in AppendInputs, step \in ClockSteps : AppendEvent(i[1], i[2], step)
    \/ \E i \in AppendInputs : AppendEventWriteRaises(i[1], i[2])
    \/ \E kwargs \in SearchQueries : SearchEvents(kwargs)

\* the event store under arbitrary calls, on an empty database
SpecEventStore == SpecMemoryInit /\ [][EventStoreNext]_vars

-----------------------------------------------------------------------------
(* Properties of the preference store *)

\* the calls of _update_preference on one (category, preference_key), in order
CallsTo(category, preference_key) ==
    SelectSeq(merge_calls, LAMBDA c : /\ c.category = category
                                      /\ c.preference_key = preference_key)

KnownEventIds == EventIds(recent_events) \cup EventIds(memory_events)

\* C1: after every feedback submission of any kind, the stored confidence of
\* every preference key, in memory and in the table, is within [0, 1].
C1_ConfidenceInUnitInterval ==
    /\ \A k \in DOMAIN user_preferences :
          /\ user_preferences[k].confidence >= 0
          /\ user_preferences[k].confidence <= 100
    /\ \A k \in DOMAIN db_user_preferences :
          /\ db_user_preferences[k].confidence >= 0
          /\ db_user_preferences[k].confidence <= 100

\* C7: a feedback submission whose source event id matches no event, neither
\* in the cache nor in the table, inserts its row into user_feedback and
\* leaves the preferences (dictionary and table) exactly as they were.
C7_UnknownSourceIsNoOp ==
    [][\A f \in FeedbackChoices :
          (UnknownEventId \notin KnownEventIds
           /\ AddUserFeedback(UnknownEventId, f[1], f[2]))
          => /\ user_preferences' = user_preferences
             /\ db_user_preferences' = db_user_preferences
             /\ merge_calls' = merge_calls
             /\ Len(user_feedback') = Len(user_feedback) + 1
             /\ Last(user_feedback').event_id = UnknownEventId
             /\ Last(user_feedback').feedback_type = f[1]]_vars

\* a feedback row with an unknown source sits in the table after preferences
\* had been learned
C7_Witness ==
    /\ DOMAIN user_preferences # {}
    /\ user_feedback # <<>>
    /\ Last(user_feedback).event_id \notin KnownEventIds
    /\ Len(merge_calls) >= 1

\* C8: a sender_category key that received k boosts of +0.3 since it was
\* created has confidence min(1.0, 0.5 + 0.3 * k): 0.8, then 1.0 for ever.
C8_RepeatedBoostClamped ==
    \A k \in DOMAIN user_preferences :
        LET p == user_preferences[k]
            calls == CallsTo(p.category, p.preference_key)
        IN (/\ p.category = "classification"
            /\ \A i \in 1..Len(calls) : calls[i].confidence_boost = SenderCategoryBoost)
           => /\ p.confidence = Min(100, 50 + 30 * Len(calls))
              /\ (Len(calls) = 1 => p.confidence = 80)
              /\ (Len(calls) >= 2 => p.confidence = 100)

\* the sender key after its third classification_correction
C8_Witness ==
    /\ FullKey("classification", "sender_category_alice") \in DOMAIN user_preferences
    /\ Len(CallsTo("classification", "sender_category_alice")) = 3
    /\ user_preferences[FullKey("classification", "sender_category_alice")].confidence = 100

\* C9: for every (category, key) the stored value is the value of the most
\* recent update, the provenance lists the contributing ids of all its updates
\* in order, one per update, and there is exactly one entry per (category, key),
\* in the dictionary and in the table.
C9_LastValueWinsProvenanceAppends ==
    /\ \A k \in DOMAIN user_preferences :
          LET p == user_preferences[k]
              calls == CallsTo(p.category, p.preference_key)
          IN /\ k = FullKey(p.category, p.preference_key)
             /\ Len(calls) >= 1
             /\ p.preference_value = Last(calls).preference_value
             /\ p.learned_from = [i \in 1..Len(calls) |-> calls[i].event_id]
             /\ <<p.category, p.preference_key>> \in DOMAIN db_user_preferences
             /\ db_user_preferences[<<p.category, p.preference_key>>].preference_value
                   = p.preference_value
             /\ db_user_preferences[<<p.category, p.preference_key>>].learned_from
                   = p.learned_from
    /\ \A i \in 1..Len(merge_calls) :
          FullKey(merge_calls[i].category, merge_calls[i].preference_key)
              \in DOMAIN user_preferences
    /\ Cardinality(DOMAIN db_user_preferences) = Cardinality(DOMAIN user_preferences)

\* a key corrected twice with two different values
C9_Witness ==
    \E k \in DOMAIN user_preferences :
        LET p == user_preferences[k]
            calls == CallsTo(p.category, p.preference_key)
        IN /\ Len(calls) >= 2
           /\ calls[1].preference_value # Last(calls).preference_value
           /\ p.preference_value = Last(calls).preference_value
           /\ Len(p.learned_from) = Len(calls)

\* C10: get_preference on a key that no update has ever touched returns
\* (default, 0.0), whatever other keys have been updated.
C10_UntouchedKeyReturnsDefault ==
    (/\ last_get # NoRecord
     /\ CallsTo(last_get.category, last_get.preference_key) = <<>>)
    => last_get.result = <<last_get.default, 0>>

\* an untouched key was read after other keys had been learned
C10_Witness ==
    /\ last_get # NoRecord
    /\ CallsTo(last_get.category, last_get.preference_key) = <<>>
    /\ merge_calls # <<>>
    /\ last_get.result = <<last_get.default, 0>>

-----------------------------------------------------------------------------
(* Properties of the cycle *)

Raised(b) == branch_calls[b].state = "raised"
Returned(b) == branch_calls[b].state = "returned"
RaisedBranches == {b \in Branches : Raised(b)}

\* the stages after the analysis pipeline has returned
AfterAnalysis == pc \in {"coordinate", "execute", "report", "done"}
AfterPlanning == pc \in {"execute", "report", "done"}
AfterExecution == pc \in {"report", "done"}

\* what branch b handed back, nothing if it raised
OutputOf(b) == IF Returned(b) THEN branch_calls[b].result.items ELSE <<>>

InSeq(x, s) == \E i \in DOMAIN s : s[i] = x

\* the WorkflowExecution events in the store
WorkflowEvents == SelectSeq(memory_events, LAMBDA e : e.event_type = "workflow_execution")

\* C2: in the parallel fan-out, when exactly one of the three branches raises,
\* the merged result holds the whole output of the other two branches and an
\* empty section for the failed one, the plan is built from that result (one
\* planned action per entry of the sections the configuration plans from),
\* and the cycle reports success.
C2_OneFailedBranchIsIsolated ==
    (workflow_settings.parallel_processing /\ AfterAnalysis
       /\ Cardinality(RaisedBranches) = 1)
    => /\ pipeline_results # NoRecord
       /\ pipeline_results.classification_results = List(OutputOf("classification"))
       /\ pipeline_results.organization_suggestions = List(OutputOf("organization"))
       /\ pipeline_results.response_candidates = List(OutputOf("response"))
       /\ \A b \in RaisedBranches : OutputOf(b) = <<>>
       /\ AfterPlanning =>
            /\ execution_plan # NoRecord
            /\ execution_plan = coordinate_workflow_execution(
                   [total_emails |-> Len(emails),
                    classification_results |-> List(OutputOf("classification")),
                    organization_suggestions |-> List(OutputOf("organization")),
                    response_candidates |-> List(OutputOf("response"))])
            /\ Len(execution_plan.immediate_actions)
                 + Len(execution_plan.user_approval_needed)
               = (IF workflow_settings.auto_classify
                  THEN Len(OutputOf("classification")) ELSE 0)
                 + (IF workflow_settings.auto_organize
                    THEN Len(OutputOf("organization")) ELSE 0)
                 + Len(OutputOf("response"))
       /\ pc = "done" => cycle_result.success = TRUE

\* the organization branch raised after the other two returned entries, and
\* the cycle finished with a plan made of them
C2_Witness ==
    /\ pc = "done"
    /\ workflow_settings.parallel_processing
    /\ RaisedBranches = {"organization"}
    /\ Len(OutputOf("classification")) = 2
    /\ Len(OutputOf("response")) = 1
    /\ Len(execution_plan.immediate_actions) + Len(execution_plan.user_approval_needed) = 3
    /\ cycle_result.success = TRUE

\* C3: when all three analysis branches fail in a cycle, the cycle is reported
\* with success = false and a WorkflowExecution event of the cycle is in the
\* event store.
C3_AllBranchesFailedReportsFailure ==
    (pc = "done" /\ RaisedBranches = Branches)
    => /\ cycle_result.success = FALSE
       /\ Len(WorkflowEvents) = 1

\* C4: every classification result with confidence at or above 0.7 is planned
\* as an immediate apply_classification, every one below 0.7 as a
\* review_classification awaiting approval.
C4_ClassificationGateAtOrAbove ==
    (AfterPlanning /\ execution_plan # NoRecord /\ workflow_settings.auto_classify)
    => \A i \in DOMAIN pipeline_results.classification_results.items :
          LET c == pipeline_results.classification_results.items[i]
          IN IF c.confidence >= ClassificationThreshold
             THEN /\ InSeq(ApplyClassification(c), execution_plan.immediate_actions)
                  /\ ~InSeq(ReviewClassification(c), execution_plan.user_approval_needed)
             ELSE /\ InSeq(ReviewClassification(c), execution_plan.user_approval_needed)
                  /\ ~InSeq(ApplyClassification(c), execution_plan.immediate_actions)

\* C5: execution attempts every immediate action once, in plan order, whether
\* or not earlier ones failed or raised: action_details has one entry per
\* immediate action, in the same order, and successful_actions +
\* failed_actions is the number of immediate actions.
C5_EveryImmediateActionTallied ==
    (AfterExecution /\ execution_plan # NoRecord)
    => /\ "execution_results" \in DOMAIN workflow_result
       /\ LET r == workflow_result.execution_results
              immediate == execution_plan.immediate_actions
          IN /\ r.successful_actions + r.failed_actions = Len(immediate)
             /\ Len(r.action_details) = Len(immediate)
             /\ \A i \in DOMAIN immediate : r.action_details[i].action = immediate[i]
             /\ r.successful_actions =
                  Cardinality({i \in DOMAIN r.action_details :
                                  r.action_details[i].result = "success"})
             /\ r.failed_actions =
                  Cardinality({i \in DOMAIN r.action_details :
                                  r.action_details[i].result # "success"})

\* an action that raised is followed by one that succeeded
C5_Witness ==
    /\ AfterExecution
    /\ execution_plan # NoRecord
    /\ "execution_results" \in DOMAIN workflow_result
    /\ \E i, j \in DOMAIN workflow_result.execution_results.action_details :
          /\ i < j
          /\ workflow_result.execution_results.action_details[i].result = "error: 'value'"
          /\ workflow_result.execution_results.action_details[j].result = "success"

\* the classification branch returned 0.9, 0.6, 0.75 for emails 1, 2, 3 and
\* the other two branches returned nothing
C6_Scenario ==
    /\ workflow_settings.parallel_processing
    /\ workflow_settings.auto_classify
    /\ emails = <<1, 2, 3>>
    /\ Returned("classification")
    /\ Len(OutputOf("classification")) = 3
    /\ OutputOf("classification")[1].confidence = 90
    /\ OutputOf("classification")[2].confidence = 60
    /\ OutputOf("classification")[3].confidence = 75
    /\ Returned("organization") /\ OutputOf("organization") = <<>>
    /\ Returned("response") /\ OutputOf("response") = <<>>

\* C6: for a batch of three whose classification branch returns confidences
\* 0.9, 0.6, 0.75 and whose other branches return nothing, the plan has the
\* first and third classification in immediate and the second awaiting
\* approval, execution tallies 2 successful and 0 failed actions, and the
\* cycle reports success and records its WorkflowExecution.
C6_EndToEndScenario ==
    C6_Scenario =>
       /\ AfterPlanning =>
            /\ execution_plan # NoRecord
            /\ Len(execution_plan.immediate_actions) = 2
            /\ execution_plan.immediate_actions[1].type = "apply_classification"
            /\ execution_plan.immediate_actions[1].email_id = 1
            /\ execution_plan.immediate_actions[2].type = "apply_classification"
            /\ execution_plan.immediate_actions[2].email_id = 3
            /\ Len(execution_plan.user_approval_needed) = 1
            /\ execution_plan.user_approval_needed[1].type = "review_classification"
            /\ execution_plan.user_approval_needed[1].email_id = 2
       /\ AfterExecution =>
            /\ workflow_result.execution_results.successful_actions = 2
            /\ workflow_result.execution_results.failed_actions = 0
       /\ pc = "done" =>
            /\ cycle_result.success = TRUE
            /\ Len(WorkflowEvents) = 1
            /\ Last(WorkflowEvents).data = workflow_result

C6_Witness ==
    /\ C6_Scenario
    /\ pc = "done"
    /\ workflow_result.execution_results.successful_actions = 2
    /\ Len(execution_plan.user_approval_needed) = 1
    /\ cycle_result.success = TRUE

-----------------------------------------------------------------------------
(* get_preference as a read *)

\* C11: get_preference is a pure read: the call changes neither the
\* preferences (cache and table) nor the events and feedback rows, and the
\* same call made again straight after it returns the same pair.
C11_GetPreferenceIsPureRead ==
    [][\A q \in PreferenceQueries :
          (/\ last_get' # NoRecord
           /\ last_get'.category = q[1] /\ last_get'.preference_key = q[2]
           /\ GetPreference(q[1], q[2], q[3]))
          => /\ UNCHANGED <<user_preferences, db_user_preferences, recent_events,
                            memory_events, user_feedback, merge_calls>>
             /\ last_get'.result = get_preference(q[1], q[2], q[3])
             /\ (get_preference(q[1], q[2], q[3]))' = last_get'.result]_vars

\* a learned key was read: the call returned its stored value and confidence
C11_Witness ==
    /\ last_get # NoRecord
    /\ FullKey(last_get.category, last_get.preference_key) \in DOMAIN user_preferences
    /\ last_get.result[2] > 0
    /\ last_get.result = get_preference(last_get.category, last_get.preference_key,
                                        last_get.default)

-----------------------------------------------------------------------------
(* Properties of the performance monitor *)

\* the last k items of a sequence
LastItems(s, k) == SubSeq(s, Len(s) - k + 1, Len(s))

\* C12: the metrics buffer never holds more than buffer_size metrics and
\* always holds the last min(n, buffer_size) of the n metrics appended so
\* far, in the order of their insertion (the oldest are evicted first).
C12_RingBufferKeepsLast ==
    /\ Len(metrics_buffer) <= buffer_size
    /\ metrics_buffer = LastItems(appended, Min(Len(appended), buffer_size))

\* capacity + 1 metrics were appended: the first is gone, the second is the
\* oldest one left
C12_Witness ==
    /\ Len(appended) = buffer_size + 1
    /\ Len(metrics_buffer) = buffer_size
    /\ metrics_buffer[1] = appended[2]
    /\ appended[1] # appended[2]

\* the warnings a step has added
NewWarnings == SubSeq(warnings', Len(warnings) + 1, Len(warnings'))

\* C13: end_operation of an operation in flight appends its metric and
\* updates the statistics of its agent whether or not it warns; it logs the
\* slow-operation warning exactly when the execution time exceeds
\* max_execution_time (30 s).
C13_EndOperationRecordsAndWarns ==
    [][\A operation_id \in OperationIds, i \in EndInputs :
          (/\ operation_id \in DOMAIN active_operations
           /\ EndOperation(operation_id, i[1], i[2]))
          => LET operation == active_operations[operation_id]
                 agent_name == operation.agent_name
                 execution_time == time_now' - operation.start_time
                 old == StatsOf(agent_stats, agent_name)
                 slow == \E j \in DOMAIN NewWarnings :
                            /\ NewWarnings[j].warning = "slow_operation"
                            /\ NewWarnings[j].agent_name = agent_name
             IN /\ Len(appended') = Len(appended) + 1
                /\ Last(appended').metric_name = "operation_execution_time"
                /\ Last(appended').value = execution_time
                /\ Last(appended').agent_name = agent_name
                /\ Last(appended').context.success = i[1]
                /\ metrics_buffer' # <<>>
                /\ Last(metrics_buffer') = Last(appended')
                /\ agent_stats'[agent_name].total_operations = old.total_operations + 1
                /\ agent_stats'[agent_name].total_execution_time
                     = old.total_execution_time + execution_time
                /\ agent_stats'[agent_name].successful_operations
                     = old.successful_operations + (IF i[1] THEN 1 ELSE 0)
                /\ agent_stats'[agent_name].failed_operations
                     = old.failed_operations + (IF i[1] THEN 0 ELSE 1)
                /\ slow <=> execution_time > MaxExecutionTime]_vars

\* an operation of exactly 30 s was recorded without a warning and a slower
\* one with the warning
C13_Witness ==
    /\ Len(appended) = 2
    /\ appended[1].metric_name = "operation_execution_time"
    /\ appended[1].value = MaxExecutionTime
    /\ appended[2].metric_name = "operation_execution_time"
    /\ appended[2].value > MaxExecutionTime
    /\ Len(warnings) = 1
    /\ warnings[1].warning = "slow_operation"
    /\ warnings[1].execution_time = appended[2].value
    /\ appended[2].agent_name \in DOMAIN agent_stats
    /\ agent_stats[appended[2].agent_name].total_operations >= 1

-----------------------------------------------------------------------------
(* Properties of the reporting step *)

\* the cycle has ended on an empty batch
EmptyBatchDone == pc = "done" /\ emails = <<>>

\* C14: on an empty batch the cycle ends at once, with no analysis, plan or
\* execution, reports success, and its WorkflowExecution is recorded in the
\* event store like that of any other cycle.
C14_EmptyBatchRecordsWorkflow ==
    EmptyBatchDone
    => /\ \A b \in Branches : branch_calls[b] = NotCalled
       /\ pipeline_results = NoRecord
       /\ execution_plan = NoRecord
       /\ mailbox_calls = <<>>
       /\ cycle_result.success = TRUE
       /\ Len(WorkflowEvents) = 1

StorageFailed == pc = "done" /\ emails # <<>> /\ WorkflowEvents = <<>>

\* C16: when the durable write of the workflow event fails, the cycle still
\* returns its results (analysis, plan, execution) and the success value it
\* would have had: the failure does not make the cycle a failed one.
C16_StorageFailureIsNotFatal ==
    StorageFailed
    => /\ cycle_result.success = TRUE
       /\ "results" \in DOMAIN cycle_result
       /\ Len(cycle_result.results) = 1
       /\ cycle_result.results[1].result = workflow_result

-----------------------------------------------------------------------------
(* Properties of concurrent feedback *)

\* the preferences after the feedback of call a and then of call b, from an
\* empty store
SerialOutcome(a, b) ==
    _learn_from_feedback(
        _learn_from_feedback(
            [prefs |-> EmptyDict, db |-> EmptyDict, calls |-> <<>>],
            a.event_id, a.feedback_type, a.feedback_value, 3),
        b.event_id, b.feedback_type, b.feedback_value, 4).prefs

\* the store agrees with an outcome on confidence and provenance of every key
AgreesWith(outcome) ==
    /\ DOMAIN user_preferences = DOMAIN outcome
    /\ \A k \in DOMAIN outcome :
          /\ user_preferences[k].confidence = outcome[k].confidence
          /\ \A i \in DOMAIN outcome[k].learned_from :
                InSeq(outcome[k].learned_from[i], user_preferences[k].learned_from)
          /\ Len(user_preferences[k].learned_from) = Len(outcome[k].learned_from)

\* both calls have returned and they were feedback of the same kind, which
\* for the loaded events is feedback on the same preference key
BothReturnedOnSameKey ==
    /\ DOMAIN feedback_calls # {}
    /\ \A t \in DOMAIN feedback_calls : feedback_calls[t].state = "returned"
    /\ \A t, u \in DOMAIN feedback_calls :
          feedback_calls[t].feedback_type = feedback_calls[u].feedback_type

\* C17: when two feedback submissions on the same preference key run
\* concurrently, no update is lost: confidence and provenance of the key are
\* those of the two updates applied one after the other, in one of the two
\* orders.
C17_NoLostUpdate ==
    BothReturnedOnSameKey
    => \E t, u \in DOMAIN feedback_calls :
          /\ t # u
          /\ AgreesWith(SerialOutcome(feedback_calls[t], feedback_calls[u]))

-----------------------------------------------------------------------------
(* Properties of the merge and of the gates *)

\* the merged result as a function of what the branches handed back alone
MergedFromOutputs ==
    [total_emails |-> Len(emails),
     classification_results |-> List(OutputOf("classification")),
     organization_suggestions |-> List(OutputOf("organization")),
     response_candidates |-> List(OutputOf("response"))]

\* C18: in whatever order the three concurrent branches complete, the merged
\* result is determined by the branches' outputs alone, at every point of
\* the collection and at its end, and so is the plan built from it.
C18_MergeIsOrderIndependent ==
    (workflow_settings.parallel_processing /\ pc # "idle" /\ emails # <<>>)
    => /\ results = MergedFromOutputs
       /\ AfterAnalysis => pipeline_results = MergedFromOutputs
       /\ AfterPlanning =>
            execution_plan = coordinate_workflow_execution(MergedFromOutputs)

\* all three branches returned entries and the plan was built from them
C18_Witness ==
    /\ workflow_settings.parallel_processing
    /\ AfterPlanning
    /\ \A b \in Branches : Returned(b) /\ OutputOf(b) # <<>>
    /\ pipeline_results = MergedFromOutputs
    /\ Len(execution_plan.immediate_actions) + Len(execution_plan.user_approval_needed)
         = Len(OutputOf("classification")) + Len(OutputOf("organization"))
           + Len(OutputOf("response"))

\* C19: every response candidate with confidence at or above 0.8 is planned
\* as an immediate send_response, every one below 0.8 as a review_response
\* awaiting approval.
C19_ResponseGateAtOrAbove ==
    (AfterPlanning /\ execution_plan # NoRecord)
    => \A i \in DOMAIN pipeline_results.response_candidates.items :
          LET r == pipeline_results.response_candidates.items[i]
          IN IF r.confidence >= ResponseThreshold
             THEN /\ InSeq(SendResponse(r), execution_plan.immediate_actions)
                  /\ ~InSeq(ReviewResponse(r), execution_plan.user_approval_needed)
             ELSE /\ InSeq(ReviewResponse(r), execution_plan.user_approval_needed)
                  /\ ~InSeq(SendResponse(r), execution_plan.immediate_actions)

\* the organization actions among the immediate actions of the plan
PlannedOrganization ==
    SelectSeq(execution_plan.immediate_actions,
              LAMBDA a : a.type = "apply_organization")

\* C20: with auto_organize true every organization suggestion becomes an
\* immediate action whatever its confidence, in the order suggested; with
\* auto_organize false the plan has no immediate organization action (and no
\* organization entry awaiting approval either).
C20_OrganizationFollowsFlag ==
    (AfterPlanning /\ execution_plan # NoRecord)
    => LET suggestions == pipeline_results.organization_suggestions.items
       IN /\ workflow_settings.auto_organize =>
               /\ Len(PlannedOrganization) = Len(suggestions)
               /\ \A i \in DOMAIN suggestions :
                     /\ PlannedOrganization[i].action = suggestions[i].action
                     /\ PlannedOrganization[i].target = suggestions[i].target
                     /\ PlannedOrganization[i].confidence = suggestions[i].confidence
          /\ ~workflow_settings.auto_organize => PlannedOrganization = <<>>
          /\ \A i \in DOMAIN execution_plan.user_approval_needed :
                execution_plan.user_approval_needed[i].type # "apply_organization"

\* a suggestion of confidence 0.3, below every gate, was planned as immediate
C20_Witness ==
    /\ AfterPlanning
    /\ execution_plan # NoRecord
    /\ workflow_settings.auto_organize
    /\ Len(PlannedOrganization) = 2
    /\ PlannedOrganization[2].action = "archive"
    /\ PlannedOrganization[2].confidence < ClassificationThreshold

-----------------------------------------------------------------------------
(* Properties of the event store *)

\* the add_event calls that returned an id
ReturnedAppends == SelectSeq(add_event_calls, LAMBDA c : c.outcome = "returned")

\* C21: event ids are unique: the add_event calls made so far, two calls of
\* the same type on the same clock reading included, produced pairwise
\* different ids, and no call was rejected because of an earlier one.
C21_EventIdsUnique ==
    /\ \A i, j \in 1..Len(add_event_calls) :
          i # j => add_event_calls[i].event_id # add_event_calls[j].event_id
    /\ \A i \in 1..Len(add_event_calls) :
          add_event_calls[i].outcome # "IntegrityError"

\* what query(type, tags, since, limit) is to return: the limit newest of the
\* stored events that pass every filter
NewestMatching(kwargs) ==
    LET event_type == Get(kwargs, "event_type", NoValue)
        tags == Get(kwargs, "tags", <<>>)
        matching == SelectSeq(memory_events,
                              LAMBDA row : /\ Where(row, event_type, kwargs)
                                           /\ tags = <<>> \/ AnyTagIn(tags, row))
    IN Limit(OrderByTimestampDesc(matching), Get(kwargs, "limit", DefaultLimit))

\* C25: search_events returns, newest first, the min(limit, m) newest of the
\* m stored events that satisfy all the filters given (type, any tag, since),
\* and the same call repeated without an append in between returns the same.
C25_QueryReturnsNewestMatching ==
    last_search # NoRecord =>
        /\ last_search.result = NewestMatching(last_search.kwargs)
        /\ last_search.result = search_events(last_search.kwargs)

\* C29: every event in the recent cache is a row of the durable store with
\* the same id and content, the cache holds at most 1000 events, and a failed
\* add_event leaves the cache as it was: the cache holds exactly the events of
\* the calls that returned.
C29_CacheWithinDurableStore ==
    /\ \A i \in 1..Len(recent_events) :
          \E j \in 1..Len(memory_events) : memory_events[j] = recent_events[i]
    /\ Len(recent_events) <= CacheLimit
    /\ Len(recent_events) = Len(ReturnedAppends)
    /\ \A i \in 1..Len(recent_events) :
          /\ recent_events[i].id = ReturnedAppends[i].event_id
          /\ recent_events[i].data = ReturnedAppends[i].data

-----------------------------------------------------------------------------
(* Properties of the cycle and the performance monitor *)

\* a cycle on a batch with emails has come to its end and reported success
CycleCompleted ==
    /\ pc = "done"
    /\ emails # <<>>
    /\ cycle_result.success

\* C22: the Reporting step of a completed cycle updates the Performance
\* Monitor: after a cycle has run its analysis, planning and execution, the
\* monitor holds counters of an owner and metrics for those operations.
C22_ReportingUpdatesMonitor ==
    CycleCompleted =>
        /\ DOMAIN agent_stats # {}
        /\ appended # <<>>
        /\ metrics_buffer # <<>>

\* the order in which run_cycle passes through its stages
StageSteps ==
    { <<"idle", "analyzing">>, <<"idle", "done">>, <<"analyzing", "coordinate">>,
      <<"coordinate", "execute">>, <<"execute", "report">>, <<"report", "done">> }

\* the execute_actions step has run
Executed == "execution_results" \in DOMAIN workflow_result

\* run_cycle has returned success False
Failed == "success" \in DOMAIN cycle_result /\ ~cycle_result.success

\* C23: the stages of a cycle occur only in the order Perceiving, Analyzing,
\* Planning, Executing, Reporting. Planning starts only when no analysis
\* branch is still running and only on a result of the analysis, Executing
\* runs only on a plan, the workflow event is recorded last, and the cycle
\* fails only when the recording of the workflow raises, never because a
\* branch raised or an action failed.
C23_StagesInOrder ==
    [][ /\ pc' # pc => <<pc, pc'>> \in StageSteps
        /\ pc' = "coordinate" =>
              \A b \in Branches : branch_calls'[b].state # "running"
        /\ execution_plan' # execution_plan =>
              /\ pc = "coordinate"
              /\ pipeline_results # NoRecord
              /\ \A b \in Branches : branch_calls[b].state \in {"returned", "raised"}
        /\ (Executed' /\ ~Executed) =>
              /\ pc = "execute"
              /\ execution_plan # NoRecord
        /\ memory_events' # memory_events => (pc = "report" /\ pc' = "done")
        /\ cycle_result' # cycle_result => pc' = "done"
        /\ Failed' =>
              /\ pc = "report"
              /\ memory_events' = memory_events
        /\ (pc = "report" /\ memory_events' # memory_events) => cycle_result'.success
      ]_vars

\* a cycle in which a branch raised and an action failed has recorded its
\* workflow and reported success
C23_Witness ==
    /\ CycleCompleted
    /\ RaisedBranches # {}
    /\ Executed
    /\ workflow_result.execution_results.failed_actions > 0
    /\ WorkflowEvents # <<>>

-----------------------------------------------------------------------------
(* Properties of priority feedback *)

\* the priorities priority_adjustment feedback is given with
AdjustedPriorities ==
    {f[2].correct_priority : f \in {g \in FeedbackChoices : g[1] = "priority_adjustment"}}

\* C24: priority_adjustment feedback on a stored event updates the preference
\* priority.sender_priority_<sender> (value the adjusted priority, confidence
\* raised by 0.4) if and only if the event has a sender and the original and
\* the adjusted priority differ by more than 1; otherwise the preference
\* store is left as it was.
C24_PriorityLearnedOnlyBeyondGap ==
    [][\A event_id \in KnownEventIds, p \in AdjustedPriorities :
          AddUserFeedback(event_id, "priority_adjustment", [correct_priority |-> p])
          => LET event == get_event(event_id)
                 sender == Get(event.data, "email_sender", "")
                 original == Get(event.data, "calculated_priority", 0)
                 full_key == FullKey("priority", "sender_priority_" \o sender)
             IN IF sender # "" /\ Abs(original - p) > 1
                THEN /\ merge_calls' = Append(merge_calls,
                            [category |-> "priority",
                             preference_key |-> "sender_priority_" \o sender,
                             preference_value |-> p, event_id |-> event_id,
                             confidence_boost |-> 40])
                     /\ full_key \in DOMAIN user_preferences'
                     /\ user_preferences'[full_key].preference_value = p
                     /\ user_preferences'[full_key].confidence =
                           IF full_key \in DOMAIN user_preferences
                           THEN Min(100, user_preferences[full_key].confidence + 40)
                           ELSE 90
                     /\ \A k \in DOMAIN user_preferences :
                           k # full_key => user_preferences'[k] = user_preferences[k]
                ELSE /\ user_preferences' = user_preferences
                     /\ db_user_preferences' = db_user_preferences
                     /\ merge_calls' = merge_calls]_vars

\* a sender's priority was learned from an adjustment by 2, and an adjustment
\* by exactly 1 on an event of the same sender was recorded without learning
C24_Witness ==
    /\ \E i \in 1..Len(merge_calls) :
          /\ merge_calls[i].category = "priority"
          /\ merge_calls[i].preference_value = 7
    /\ \E i \in 1..Len(user_feedback) :
          /\ user_feedback[i].feedback_type = "priority_adjustment"
          /\ user_feedback[i].feedback_value.correct_priority = 6
          /\ user_feedback[i].event_id \in KnownEventIds
          /\ Get(get_event(user_feedback[i].event_id).data, "email_sender", "") # ""
    /\ \A i \in 1..Len(merge_calls) :
          merge_calls[i].category = "priority" => merge_calls[i].preference_value # 6

-----------------------------------------------------------------------------
(* Properties of the agent statistics *)

\* no entry of histogram h is smaller in g, and none is gone
HistogramGrows(h, g) ==
    \A k \in DOMAIN h : k \in DOMAIN g /\ g[k] >= h[k]

\* C26: for every agent, total_operations = successful_operations +
\* failed_operations; no counter of an agent ever decreases; end_operation of
\* an operation in flight adds exactly 1 to the total of its agent and
\* removes the in-flight record; end_operation of an id that is not in flight
\* changes neither the statistics nor the metrics buffer.
C26_AgentStatsAccumulate ==
    [][ /\ \A a \in DOMAIN agent_stats' :
              agent_stats'[a].total_operations =
                 agent_stats'[a].successful_operations + agent_stats'[a].failed_operations
        /\ \A a \in DOMAIN agent_stats :
              /\ a \in DOMAIN agent_stats'
              /\ agent_stats'[a].total_operations >= agent_stats[a].total_operations
              /\ agent_stats'[a].successful_operations >= agent_stats[a].successful_operations
              /\ agent_stats'[a].failed_operations >= agent_stats[a].failed_operations
              /\ agent_stats'[a].total_execution_time >= agent_stats[a].total_execution_time
              /\ HistogramGrows(agent_stats[a].tool_usage, agent_stats'[a].tool_usage)
              /\ HistogramGrows(agent_stats[a].error_types, agent_stats'[a].error_types)
        /\ \A operation_id \in OperationIds, i \in EndInputs :
              EndOperation(operation_id, i[1], i[2]) =>
                 IF operation_id \in DOMAIN active_operations
                 THEN LET agent_name == active_operations[operation_id].agent_name
                      IN /\ agent_stats'[agent_name].total_operations =
                               StatsOf(agent_stats, agent_name).total_operations + 1
                         /\ operation_id \notin DOMAIN active_operations'
                         /\ \A a \in DOMAIN agent_stats' \ {agent_name} :
                               a \in DOMAIN agent_stats /\ agent_stats'[a] = agent_stats[a]
                 ELSE /\ agent_stats' = agent_stats
                      /\ metrics_buffer' = metrics_buffer
                      /\ appended' = appended
                      /\ active_operations' = active_operations
      ]_vars

\* an agent has ended one operation with success and one with failure, and
\* an end_operation on an id not in flight has been logged
C26_Witness ==
    /\ \E a \in DOMAIN agent_stats :
          /\ agent_stats[a].successful_operations >= 1
          /\ agent_stats[a].failed_operations >= 1
    /\ \E i \in 1..Len(warnings) : warnings[i].warning = "operation_not_found"

-----------------------------------------------------------------------------
(* Properties of the action executor *)

\* mailbox call c applies suggestion sug of the organization branch
AppliesSuggestion(c, sug) ==
    /\ c.email_id = sug.target
    /\ \/ sug.action = "apply_label" /\ c.op = "add_label" /\ c.label = sug.value
       \/ sug.action = "archive" /\ c.op = "archive_email"

\* C27: the mailbox is modified (label, archive, send) only during the
\* Executing stage and only for actions Planning put into immediate_actions:
\* no call is made before the plan is executed, none without a plan, no more
\* than one per immediate action, and none for a suggestion of the organizer
\* when auto_organize is off.
C27_ExecutorOnlyInExecuting ==
    /\ pc \in {"idle", "analyzing", "coordinate", "execute"} => mailbox_calls = <<>>
    /\ execution_plan = NoRecord => mailbox_calls = <<>>
    /\ execution_plan # NoRecord =>
          Len(mailbox_calls) <= Len(execution_plan.immediate_actions)
    /\ ~workflow_settings.auto_organize =>
          \A i \in DOMAIN mailbox_calls, j \in DOMAIN OutputOf("organization") :
              ~AppliesSuggestion(mailbox_calls[i], OutputOf("organization")[j])


\* C28: every immediate action reaches the executor and is tallied by what
\* the executor returns. The mailbox calls of the model all return True, so
\* every immediate action is tallied successful and none failed; an
\* apply_label action of the plan carries its target and its label value and
\* its label call is made.
C28_ImmediateActionsTalliedByOutcome ==
    (AfterExecution /\ execution_plan # NoRecord) =>
        LET r == workflow_result.execution_results
            immediate == execution_plan.immediate_actions
        IN /\ Len(r.action_details) = Len(immediate)
           /\ r.failed_actions = 0
           /\ r.successful_actions = Len(immediate)
           /\ \A i \in DOMAIN immediate :
                 /\ r.action_details[i].result = "success"
                 /\ (immediate[i].type = "apply_organization"
                     /\ immediate[i].action = "apply_label")
                    => /\ "target" \in DOMAIN immediate[i]
                       /\ "value" \in DOMAIN immediate[i]
                       /\ \E k \in DOMAIN mailbox_calls :
                             /\ mailbox_calls[k].stage = "executing"
                             /\ mailbox_calls[k].op = "add_label"
                             /\ mailbox_calls[k].email_id = immediate[i].target

-----------------------------------------------------------------------------
(* Properties of the two modes of the analysis pipeline *)

\* C30: for the same batch and the same outputs of the three branches, the
\* pipeline hands Planning the same merged result in sequential mode as in
\* parallel mode, the three sections as lists of entries, and Planning
\* builds the same plan from it.
C30_SequentialEqualsParallel ==
    (AfterAnalysis /\ emails # <<>> /\ \A b \in Branches : Returned(b)) =>
        /\ pipeline_results = MergedFromOutputs
        /\ AfterPlanning =>
              execution_plan = coordinate_workflow_execution(MergedFromOutputs)

=============================================================================
